---------------------------- MODULE Spec2Model ----------------------------
(***************************************************************************)
(* Checkout detection and idempotent actuation pipeline of                 *)
(* nest-checkout-automation: the calendar poller (parse, time window,      *)
(* keyword policy, dedup ledger), the device client (listing cache,        *)
(* retried mode commands, fan-out) and the polling job with its three      *)
(* triggers (startup poll, interval timer, POST /poll).                     *)
(*                                                                         *)
(* Instants are integers counting minutes.  Texts are sequences of         *)
(* one-character strings.  A coroutine is suspended exactly where its pc   *)
(* names an awaited network call; the code between two awaits is one step. *)
(***************************************************************************)
EXTENDS Integers, Sequences, FiniteSets

VARIABLES
    now,                  \* datetime.now(pytz.UTC), in minutes
    processed_events,     \* CalendarPoller._processed_events
    processed_timestamps, \* CalendarPoller._processed_timestamps
    devices_cache,        \* NestController._devices_cache
    nest_device_ids,      \* settings.device_ids_list
    feed,                 \* environment: the calendar behind ical_url
    sdm_devices,          \* environment: the devices the listing call answers with
    scheduler_running,    \* scheduler.start() has been called
    last_poll_time,       \* main.last_poll_time
    last_action_time,     \* main.last_action_time
    last_action_result,   \* main.last_action_result
    pc,                   \* per coroutine: where it is suspended
    events,               \* per coroutine: poll_calendar_job's events
    idx,                  \* per coroutine: position of the for loop over events
    device_ids,           \* per coroutine: process_checkout_event's device_ids
    dev_idx,              \* per coroutine: position of the for loop over device_ids
    attempt,              \* per coroutine: tenacity attempt number of the call in flight
    results,              \* per coroutine: turn_off_thermostats' results
    tick_ledger,          \* history: _processed_events right after the run's cleanup
    parsed,               \* history: what parse_events returned to the run
    event_log,            \* history: the events the run has worked on, and how each went
    credentials_token,    \* TokenManager._credentials.token
    credentials_expiry,   \* TokenManager._credentials.expiry
    last_refresh,         \* TokenManager._last_refresh
    call                  \* the last operation that returned, with its result

ledgerVars == <<processed_events, processed_timestamps>>
mainVars == <<last_poll_time, last_action_time, last_action_result>>
procVars == <<pc, events, idx, device_ids, dev_idx, attempt, results>>
histVars == <<tick_ledger, parsed, event_log>>
envVars == <<nest_device_ids, feed, sdm_devices>>
authVars == <<credentials_token, credentials_expiry, last_refresh>>
vars == <<now, ledgerVars, devices_cache, envVars, authVars, scheduler_running,
          mainVars, procVars, histVars, call>>

(***************************************************************************)
(* Bounds of the model.                                                    *)
(***************************************************************************)
\* the clock stops after this many half days
MaxHalfDays == 3
\* longest list of device ids handed to turn_off_thermostats on its own
MaxDevices == 2

(***************************************************************************)
(* Program constants.                                                      *)
(***************************************************************************)
max_age_hours == 24
checkout_buffer_minutes == 30
default_duration_hours == 1
stop_after_attempt == 3
refresh_margin_minutes == 10
\* wait_exponential(multiplier=1, min=2, max=30), in seconds
wait_multiplier == 1
wait_min == 2
wait_max == 30

(***************************************************************************)
(* Texts.                                                                  *)
(***************************************************************************)
UPPER == <<"A","B","C","D","E","F","G","H","I","J","K","L","M",
           "N","O","P","Q","R","S","T","U","V","W","X","Y","Z">>
LOWER == <<"a","b","c","d","e","f","g","h","i","j","k","l","m",
           "n","o","p","q","r","s","t","u","v","w","x","y","z">>
DIGITS == <<"0","1","2","3","4","5","6","7","8","9">>

InSeq(c, s) == \E i \in 1..Len(s) : s[i] = c
IndexIn(c, s) == CHOOSE i \in 1..Len(s) : s[i] = c

\* str.lower() and str.upper(), character by character
lower_char(c) == IF InSeq(c, UPPER) THEN LOWER[IndexIn(c, UPPER)] ELSE c
upper_char(c) == IF InSeq(c, LOWER) THEN UPPER[IndexIn(c, LOWER)] ELSE c
lower(s) == [i \in 1..Len(s) |-> lower_char(s[i])]
upper(s) == [i \in 1..Len(s) |-> upper_char(s[i])]

\* the Python test  sub in s
contains(sub, s) ==
    \E i \in 0..(Len(s) - Len(sub)) : SubSeq(s, i + 1, i + Len(sub)) = sub

\* settings.trigger_keyword
trigger_keyword ==
    <<"T","U","R","N","_","O","F","F","_","T","H","E","R","M","O","S","T","A","T","S">>

\* the literals of the summary test
CHECK_OUT == <<"c","h","e","c","k","-","o","u","t">>
CHECKOUT == <<"c","h","e","c","k","o","u","t">>
\* the literal of the reservation pattern, lower-cased (re.IGNORECASE)
RESERVATION == <<"r","e","s","e","r","v","a","t","i","o","n",":">>

is_space(c) == c \in {" ", "\n", "\t"}
\* [A-Z0-9] under re.IGNORECASE
is_token_char(c) == InSeq(c, UPPER) \/ InSeq(c, LOWER) \/ InSeq(c, DIGITS)

\* first position at or after i whose character is not white space (\s*)
RECURSIVE skip_space(_, _)
skip_space(s, i) ==
    IF i <= Len(s) /\ is_space(s[i]) THEN skip_space(s, i + 1) ELSE i

\* last position of the run of token characters that starts at i ([A-Z0-9]+)
RECURSIVE token_end(_, _)
token_end(s, i) ==
    IF i + 1 <= Len(s) /\ is_token_char(s[i + 1]) THEN token_end(s, i + 1) ELSE i

\* positions where  Reservation:\s*([A-Z0-9]+)  matches
reservation_matches(description) ==
    LET low == lower(description)
    IN  { i \in 1..Len(description) :
            /\ i + Len(RESERVATION) - 1 <= Len(description)
            /\ low[i] = RESERVATION[1]
            /\ SubSeq(low, i, i + Len(RESERVATION) - 1) = RESERVATION
            /\ LET j == skip_space(description, i + Len(RESERVATION))
               IN  j <= Len(description) /\ is_token_char(description[j]) }

Min(S) == CHOOSE x \in S : \A y \in S : x <= y

\* CalendarPoller._parse_reservation_id: group 1 of the first match; the empty
\* text stands for None (the caller tests  not reservation_id)
parse_reservation_id(description) ==
    LET m == reservation_matches(description)
    IN  IF m = {} THEN <<>>
        ELSE LET j == skip_space(description, Min(m) + Len(RESERVATION))
             IN  SubSeq(description, j, token_end(description, j))


(***************************************************************************)
(* Calendar entries and parse_events.                                      *)
(*                                                                         *)
(* A VEVENT is [summary, description, dtstart, dtend]; dtstart and dtend   *)
(* are [kind, t] with kind "datetime" (aware), "naive", "date" (all-day)   *)
(* or "absent".                                                            *)
(***************************************************************************)
Dt(kind, t) == [kind |-> kind, t |-> t]
Absent == Dt("absent", 0)
VEvent(summary, description, dtstart, dtend) ==
    [summary |-> summary, description |-> description,
     dtstart |-> dtstart, dtend |-> dtend]

\* decimal rendering of an instant, standing for datetime.isoformat()
RECURSIVE isoformat(_)
isoformat(t) ==
    IF t < 10 THEN <<DIGITS[t + 1]>>
    ELSE isoformat(t \div 10) \o <<DIGITS[(t % 10) + 1]>>

\* CalendarPoller._ensure_timezone_aware: dt.tzinfo does not exist on a date
ensure_timezone_aware_raises(dt) == dt.kind = "date"
ensure_timezone_aware(dt) == dt.t

\* the body of the try block raises for this component
component_raises(component) ==
    /\ component.dtstart.kind # "absent"
    /\ \/ ensure_timezone_aware_raises(component.dtstart)
       \/ /\ component.dtend.kind # "absent"
          /\ ensure_timezone_aware_raises(component.dtend)

event_start_of(component) == ensure_timezone_aware(component.dtstart)
\* variant: an entry without an end ends when it starts
event_end_no_default(component) ==
    IF component.dtend.kind # "absent"
    THEN ensure_timezone_aware(component.dtend)
    ELSE event_start_of(component)

event_end_of(component) ==
    IF component.dtend.kind # "absent"
    THEN ensure_timezone_aware(component.dtend)
    ELSE event_start_of(component) + default_duration_hours * 60

\* variant: the buffer start itself is outside the window
in_time_window_open(event_start, event_end, t, buffer_minutes) ==
    LET buffer_start == t - buffer_minutes
        is_in_window == buffer_start < event_start /\ event_start <= t
        is_happening_now == event_start <= t /\ t <= event_end
    IN  is_in_window \/ is_happening_now

\* is_in_window or is_happening_now
in_time_window(event_start, event_end, t, buffer_minutes) ==
    LET buffer_start == t - buffer_minutes
        is_in_window == buffer_start <= event_start /\ event_start <= t
        is_happening_now == event_start <= t /\ t <= event_end
    IN  is_in_window \/ is_happening_now

\* has_trigger
has_trigger(description) == contains(upper(trigger_keyword), upper(description))

\* is_checkout
is_checkout(summary) ==
    contains(CHECK_OUT, lower(summary)) \/ contains(CHECKOUT, lower(summary))

\* the reservation id of a component: extracted, or the fallback
\* variant: the fallback takes the whole summary
reservation_id_whole_summary(component) ==
    LET rid == parse_reservation_id(component.description)
    IN  IF rid # <<>> THEN rid
        ELSE component.summary \o <<"_">> \o isoformat(event_start_of(component))

reservation_id_of(component) ==
    LET rid == parse_reservation_id(component.description)
        s == component.summary
    IN  IF rid # <<>> THEN rid
        ELSE SubSeq(s, 1, IF Len(s) < 20 THEN Len(s) ELSE 20)
                 \o <<"_">> \o isoformat(event_start_of(component))

CheckoutEvent(component) ==
    [reservation_id |-> reservation_id_of(component),
     event_start |-> event_start_of(component),
     event_end |-> event_end_of(component),
     summary |-> component.summary,
     has_trigger_keyword |-> has_trigger(component.description)]

\* variant: an exception loses the events gathered so far
parse_component_reset(acc, component, t, buffer_minutes) ==
    IF component.dtstart.kind = "absent" THEN acc
    ELSE IF component_raises(component) THEN <<>>
    ELSE IF ~in_time_window(event_start_of(component), event_end_of(component),
                            t, buffer_minutes) THEN acc
    ELSE IF ~(is_checkout(component.summary) \/ has_trigger(component.description))
         THEN acc
    ELSE Append(acc, CheckoutEvent(component))

\* one pass of the for loop of parse_events: the events list after the component
parse_component(acc, component, t, buffer_minutes) ==
    IF component.dtstart.kind = "absent" THEN acc
    ELSE IF component_raises(component) THEN acc
    ELSE IF ~in_time_window(event_start_of(component), event_end_of(component),
                            t, buffer_minutes) THEN acc
    ELSE IF ~(is_checkout(component.summary) \/ has_trigger(component.description))
         THEN acc
    ELSE Append(acc, CheckoutEvent(component))

\* CalendarPoller.parse_events at time t
RECURSIVE parse_loop(_, _, _, _, _)
parse_loop(acc, calendar, i, t, buffer_minutes) ==
    IF i > Len(calendar) THEN acc
    ELSE parse_loop(parse_component(acc, calendar[i], t, buffer_minutes),
                    calendar, i + 1, t, buffer_minutes)

parse_events(calendar, buffer_minutes, t) ==
    parse_loop(<<>>, calendar, 1, t, buffer_minutes)

(***************************************************************************)
(* The dedup ledger.  A ledger value is [events, timestamps].              *)
(***************************************************************************)
Ledger(pe, pt) == [events |-> pe, timestamps |-> pt]

\* CalendarPoller.filter_unprocessed
RECURSIVE filter_loop(_, _, _, _)
filter_loop(unprocessed, evs, i, pe) ==
    IF i > Len(evs) THEN unprocessed
    ELSE filter_loop(IF evs[i].reservation_id \notin pe
                     THEN Append(unprocessed, evs[i]) ELSE unprocessed,
                     evs, i + 1, pe)

\* variant: the loop stops at the first processed event instead of skipping it
RECURSIVE filter_loop_break(_, _, _, _)
filter_loop_break(unprocessed, evs, i, pe) ==
    IF i > Len(evs) \/ evs[i].reservation_id \in pe THEN unprocessed
    ELSE filter_loop_break(Append(unprocessed, evs[i]), evs, i + 1, pe)
filter_unprocessed_break(evs, pe) == filter_loop_break(<<>>, evs, 1, pe)

filter_unprocessed(evs, pe) == filter_loop(<<>>, evs, 1, pe)

\* variant: the timestamp of the first mark is kept
mark_processed_first(ledger, event, t) ==
    Ledger(ledger.events \cup {event.reservation_id},
           [r \in DOMAIN ledger.timestamps \cup {event.reservation_id} |->
               IF r \in DOMAIN ledger.timestamps THEN ledger.timestamps[r] ELSE t])

\* CalendarPoller.mark_processed at time t
mark_processed(ledger, event, t) ==
    Ledger(ledger.events \cup {event.reservation_id},
           [r \in DOMAIN ledger.timestamps \cup {event.reservation_id} |->
               IF r = event.reservation_id THEN t ELSE ledger.timestamps[r]])

\* variant: an entry exactly max_age_hours old is removed too
cleanup_old_processed_inclusive(ledger, t) ==
    LET cutoff == t - max_age_hours * 60
        to_remove == { r \in DOMAIN ledger.timestamps : ledger.timestamps[r] <= cutoff }
    IN  Ledger(ledger.events \ to_remove,
               [r \in DOMAIN ledger.timestamps \ to_remove |-> ledger.timestamps[r]])

\* variant: the old ids leave the set and keep their timestamps
cleanup_old_processed_set_only(ledger, t) ==
    LET cutoff == t - max_age_hours * 60
        to_remove == { r \in DOMAIN ledger.timestamps : ledger.timestamps[r] < cutoff }
    IN  Ledger(ledger.events \ to_remove, ledger.timestamps)

\* CalendarPoller.cleanup_old_processed at time t
cleanup_old_processed(ledger, t) ==
    LET cutoff == t - max_age_hours * 60
        to_remove == { r \in DOMAIN ledger.timestamps : ledger.timestamps[r] < cutoff }
    IN  Ledger(ledger.events \ to_remove,
               [r \in DOMAIN ledger.timestamps \ to_remove |-> ledger.timestamps[r]])

\* variant: every parsed event counts as triggered
triggered_events_all(evs) == evs

\* the two filters at the end of get_actionable_checkouts
triggered_events(evs) == SelectSeq(evs, LAMBDA e : e.has_trigger_keyword)

\* variant: the ledger is not consulted
actionable_unfiltered(evs, pe) == triggered_events(evs)

actionable(evs, pe) == filter_unprocessed(triggered_events(evs), pe)


(***************************************************************************)
(* Inputs: the texts, calendar entries and calendars the checks draw from. *)
(***************************************************************************)
\* "Check-out"
SumCheckOut == <<"C","h","e","c","k","-","o","u","t">>
\* "GUEST CHECKOUT"
SumCHECKOUT == <<"G","U","E","S","T"," ","C","H","E","C","K","O","U","T">>
\* "Check out" (neither literal)
SumCheckSpaceOut == <<"C","h","e","c","k"," ","o","u","t">>
\* "Stay"
SumStay == <<"S","t","a","y">>
\* "Reservation: A1\nTURN_OFF_THERMOSTATS"
DescA == <<"R","e","s","e","r","v","a","t","i","o","n",":"," ","A","1">> \o <<"\n">> \o trigger_keyword
\* "reservation:A1 turn_off_thermostats"
DescALower == <<"r","e","s","e","r","v","a","t","i","o","n",":","A","1"," ","t","u","r","n","_","o","f","f","_","t","h","e","r","m","o","s","t","a","t","s">>
\* "Reservation: B2"
DescB == <<"R","e","s","e","r","v","a","t","i","o","n",":"," ","B","2">>
\* "Turn_Off_Thermostats"
DescKeyword == <<"T","u","r","n","_","O","f","f","_","T","h","e","r","m","o","s","t","a","t","s">>
\* "TURN_OFF"
DescPartial == <<"T","U","R","N","_","O","F","F">>

\* "Check-out of the guest A" and "Check-out of the guest B": 24 characters, the
\* same first 20
SumLongA == SumCheckOut \o <<" ","o","f"," ","t","h","e"," ","g","u","e","s","t"," ","A">>
SumLongB == SumCheckOut \o <<" ","o","f"," ","t","h","e"," ","g","u","e","s","t"," ","B">>
\* "Reservation: #7" (the label without a token)
DescNoToken == <<"R","e","s","e","r","v","a","t","i","o","n",":"," ","#","7">>

Summaries == {SumCheckOut, SumCHECKOUT, SumCheckSpaceOut, SumStay}
Descriptions == {DescA, DescALower, DescB, DescKeyword, DescPartial, <<>>}


\* calendar entries of the polling runs; the clock moves in half days
EntA == VEvent(SumCheckOut, DescA, Dt("datetime", 0), Dt("datetime", 4 * 12 * 60))
EntA2 == VEvent(SumStay, DescALower, Dt("datetime", 0), Dt("datetime", 4 * 12 * 60))
EntB == VEvent(SumCHECKOUT, DescB, Dt("datetime", 0), Dt("datetime", 4 * 12 * 60))
EntC == VEvent(SumStay, DescKeyword, Dt("naive", 12 * 60), Absent)
EntD == VEvent(SumCheckSpaceOut, DescPartial, Dt("datetime", 0), Dt("datetime", 4 * 12 * 60))
Calendars == { <<EntA, EntA2>>, <<EntC, EntB, EntD, EntA>> }

\* device ids, and what the listing call may answer: [id, thermostat]
Device(id, thermostat) == [device_id |-> id, thermostat |-> thermostat]
DeviceIds == {"d1", "d2", "d3"}
ListResponses == { <<>>, <<Device("d1", TRUE), Device("cam", FALSE), Device("d2", TRUE)>> }
ConfiguredIds == { <<>>, <<"d2">> }

\* how one HTTP attempt of the device client can fail
\* HTTPStatusError is what raise_for_status raises for a 4xx or 5xx answer
Err(class, status) == [class |-> class, status |-> status]
NoError == Err("none", 0)
Errors == { Err("HTTPStatusError", 401), Err("HTTPStatusError", 503),
            Err("ConnectError", 0), Err("TimeoutException", 0), Err("RefreshError", 0) }
\* the failures the polling runs are checked with: one retried, one not
TickErrors == { Err("ConnectError", 0), Err("RefreshError", 0) }

ClockSteps == {12 * 60}

(***************************************************************************)
(* The device client.                                                      *)
(***************************************************************************)
\* retry_if_exception_type((httpx.HTTPStatusError, httpx.ConnectError))
retryable(err) == err.class \in {"HTTPStatusError", "ConnectError"}

\* variant: one more attempt than stop_after_attempt
retry_again_inclusive(err, a) == retryable(err) /\ a <= stop_after_attempt

\* tenacity after a failed attempt number a: wait and call again, or re-raise
retry_again(err, a) == retryable(err) /\ a < stop_after_attempt

\* the larger and the smaller of two numbers
Max2(a, b) == IF a >= b THEN a ELSE b
Min2(a, b) == IF a <= b THEN a ELSE b

\* tenacity's wait_exponential after the failed attempt number a, in seconds:
\* multiplier * 2 ** (attempt_number - 1), held between min and max
wait_exponential(a) ==
    Max2(Max2(0, wait_min), Min2(wait_multiplier * 2 ^ (a - 1), wait_max))

\* the record of a device client call: the attempt it ended or failed at; a
\* listing awaited by process_checkout_event carries the id of its event
CallRecord(op, d, outcome, a, err) ==
    [op |-> op, device_id |-> d, outcome |-> outcome, attempt |-> a, error |-> err,
     sink |-> <<>>, event |-> <<>>]

\* the record of the listing call process_checkout_event awaits for event
ListRecord(event, outcome, a, err) ==
    [CallRecord("list_devices", "", outcome, a, err)
        EXCEPT !.event = event.reservation_id]

\* the loop of list_devices: the ids of the devices with the ThermostatMode trait
thermostats(response) ==
    LET kept == SelectSeq(response, LAMBDA d : d.thermostat)
    IN  [i \in 1..Len(kept) |-> kept[i].device_id]

\* an Optional value is <<>> (None) or <<v>>
\* the test  self._devices_cache and not force_refresh
\* variant: a cache that was filled counts, empty or not
cache_hit_filled(cache, force_refresh) ==
    cache # <<>> /\ ~force_refresh

cache_hit(cache, force_refresh) ==
    cache # <<>> /\ cache[1] # <<>> /\ ~force_refresh

\* what the listing endpoint does to one list_devices call: it answers 200 with
\* response at the attempt-th attempt, or the call raises error at that attempt
Answer(ok, response, a, err) ==
    [ok |-> ok, response |-> response, attempts |-> a, error |-> err]

\* NestController.list_devices as one call: the cache after it, the HTTP
\* requests it made, whether it raised, and what it returned
list_devices(cache, force_refresh, answer) ==
    IF cache_hit(cache, force_refresh)
    THEN [cache |-> cache, requests |-> 0, raised |-> FALSE, ret |-> cache[1]]
    ELSE IF answer.ok
         THEN [cache |-> <<thermostats(answer.response)>>, requests |-> answer.attempts,
               raised |-> FALSE, ret |-> thermostats(answer.response)]
         ELSE [cache |-> cache, requests |-> answer.attempts, raised |-> TRUE,
               ret |-> <<>>]

(***************************************************************************)
(* The token manager.  A held token is <<tok>> and None is <<>>; an expiry *)
(* is <<t>> or <<>>.  The polling runs do not follow the token: there a    *)
(* failed refresh is one of the ways an HTTP attempt can raise.            *)
(***************************************************************************)
\* Credentials.expired: False without an expiry.  The library's clock skew is
\* shorter than the margin, so the margin clause of needs_refresh covers it.
expired(expiry, t) == expiry # <<>> /\ t >= expiry[1]

\* variant: the margin is not applied
needs_refresh_no_margin(token, expiry, t) ==
    \/ token = <<>>
    \/ expired(expiry, t)

\* needs_refresh of get_valid_token at time t
needs_refresh(token, expiry, t) ==
    \/ token = <<>>
    \/ expired(expiry, t)
    \/ expiry # <<>> /\ expiry[1] < t + refresh_margin_minutes

\* what the token endpoint may answer: a token with a lifetime, a token without
\* expires_in, or a failure
Granted(lifetime) == [ok |-> TRUE, lifetime |-> lifetime]
Refused == [ok |-> FALSE, lifetime |-> <<>>]

TokenState(token, expiry, last) == [token |-> token, expiry |-> expiry, last_refresh |-> last]
TokenResult(st, refreshes, raised, ret) ==
    [state |-> st, refreshes |-> refreshes, raised |-> raised, ret |-> ret]

\* variant: the bookkeeping is written before the exchange
try_refresh_bookkeeping_first(st, t, outcome) ==
    IF outcome.ok
    THEN LET tok == <<[issued |-> t, lifetime |-> outcome.lifetime]>>
             exp == IF outcome.lifetime = <<>> THEN <<>> ELSE <<t + outcome.lifetime[1]>>
         IN  TokenResult(TokenState(tok, exp, <<t>>), 1, FALSE, tok)
    ELSE TokenResult(TokenState(st.token, st.expiry, <<t>>), 1, TRUE, <<>>)

\* the try block of get_valid_token: one refresh exchange at time t
try_refresh(st, t, outcome) ==
    IF outcome.ok
    THEN LET tok == <<[issued |-> t, lifetime |-> outcome.lifetime]>>
             exp == IF outcome.lifetime = <<>> THEN <<>> ELSE <<t + outcome.lifetime[1]>>
         IN  TokenResult(TokenState(tok, exp, <<t>>), 1, FALSE, tok)
    ELSE TokenResult(st, 1, TRUE, <<>>)

\* TokenManager.get_valid_token at time t, the exchange (if any) answering outcome
get_valid_token(st, t, outcome) ==
    IF needs_refresh(st.token, st.expiry, t)
    THEN try_refresh(st, t, outcome)
    ELSE TokenResult(st, 0, FALSE, st.token)

\* variant: the held token is attached without asking the token manager
http_attempt_held(st, t, refresh, answer) ==
    [state |-> st, token_calls |-> 0, sent |-> TRUE, bearer |-> st.token,
     error |-> answer.error]

\* one attempt of list_devices or set_thermostat_mode at time t: _get_headers
\* asks get_valid_token, whose refresh (if any) answers refresh, and the request
\* goes out with the token as bearer and is answered with answer
http_attempt(st, t, refresh, answer) ==
    LET r == get_valid_token(st, t, refresh)
    IN  [state |-> r.state, token_calls |-> 1, sent |-> ~r.raised, bearer |-> r.ret,
         error |-> IF r.raised THEN Err("RefreshError", 0) ELSE answer.error]

(***************************************************************************)
(* The polling job.  A poll run is a coroutine of Procs.                   *)
(***************************************************************************)
Procs == {"initial", "timer", "manual"}

Active(p) == pc[p] \notin {"boot", "idle"}

\* the locals of a run, with the history of its events
Loc(evs, pcv, k, ids, j, a, res, lg) ==
    [events |-> evs, pc |-> pcv, idx |-> k, device_ids |-> ids, dev_idx |-> j,
     attempt |-> a, results |-> res, log |-> lg]

\* poll_calendar_job has returned
Idle == Loc(<<>>, "idle", 0, <<>>, 0, 0, <<>>, <<>>)

LogEntry(rid, status, cl) == [reservation_id |-> rid, status |-> status, calls |-> cl]
SetLast(lg, status, cl) ==
    [lg EXCEPT ![Len(lg)] = LogEntry(lg[Len(lg)].reservation_id, status, cl)]

RECURSIVE for_loop(_, _, _, _, _)

\* variant: the discovered thermostats are the targets whenever there are any
after_list_devices_discovered(evs, k, devices, cache, cfg, lg) ==
    LET ids == IF devices # <<>> THEN devices ELSE cfg
    IN  IF ids = <<>>
        THEN for_loop(evs, k + 1, cache, cfg, SetLast(lg, "no_thermostats", <<>>))
        ELSE Loc(evs, "set_mode", k, ids, 1, 1, <<>>, SetLast(lg, "fan_out", <<>>))

\* variant: with no configured and no discovered device, a default id is commanded
after_list_devices_default(evs, k, devices, cache, cfg, lg) ==
    LET ids == IF cfg # <<>> THEN cfg ELSE IF devices # <<>> THEN devices ELSE <<"d1">>
    IN  Loc(evs, "set_mode", k, ids, 1, 1, <<>>, SetLast(lg, "fan_out", <<>>))

\* process_checkout_event from the return of list_devices to its next await
after_list_devices(evs, k, devices, cache, cfg, lg) ==
    LET ids == IF cfg # <<>> THEN cfg ELSE devices
    IN  IF ids = <<>>
        THEN for_loop(evs, k + 1, cache, cfg, SetLast(lg, "no_thermostats", <<>>))
        ELSE Loc(evs, "set_mode", k, ids, 1, 1, <<>>, SetLast(lg, "fan_out", <<>>))

\* process_checkout_event from its entry to its first await
process_checkout_event(evs, k, cache, cfg, lg) ==
    IF cache_hit(cache, FALSE)
    THEN after_list_devices(evs, k, cache[1], cache, cfg, lg)
    ELSE Loc(evs, "list", k, <<>>, 0, 1, <<>>, lg)

\* variant: the loop ends after its first event
for_loop_first(evs, k, cache, cfg, lg) ==
    IF k > Len(evs) \/ k > 1 THEN Idle
    ELSE process_checkout_event(evs, k, cache, cfg,
             Append(lg, LogEntry(evs[k].reservation_id, "started", <<>>)))

\* the for loop of poll_calendar_job, at event k
for_loop(evs, k, cache, cfg, lg) ==
    IF k > Len(evs) THEN Idle
    ELSE process_checkout_event(evs, k, cache, cfg,
             Append(lg, LogEntry(evs[k].reservation_id, "started", <<>>)))

\* variant: the exception leaves the for loop and ends the run
except_event_propagates(evs, k, cache, cfg, lg) == Idle

\* variant: the event that raised is processed again
except_event_again(evs, k, cache, cfg, lg) ==
    for_loop(evs, k, cache, cfg, SetLast(lg, "raised", lg[Len(lg)].calls))

\* variant: after the exception the configured ids are commanded all the same
except_event_configured(evs, k, cache, cfg, lg) ==
    IF cfg # <<>>
    THEN Loc(evs, "set_mode", k, cfg, 1, 1, <<>>, SetLast(lg, "fan_out", <<>>))
    ELSE for_loop(evs, k + 1, cache, cfg, SetLast(lg, "raised", lg[Len(lg)].calls))

\* the except clause of the for loop: log, go on with the next event
except_event(evs, k, cache, cfg, lg) ==
    for_loop(evs, k + 1, cache, cfg, SetLast(lg, "raised", lg[Len(lg)].calls))

\* variant: the event is marked only when a device was turned off
after_turn_off_on_success(ledger, event, res, t) ==
    LET success_count == Cardinality({ d \in DOMAIN res : res[d] })
        fail_count == Cardinality(DOMAIN res) - success_count
    IN  [ledger |-> IF success_count > 0 THEN mark_processed(ledger, event, t) ELSE ledger,
         last_action_time |-> <<t>>,
         last_action_result |->
             <<[reservation_id |-> event.reservation_id,
                thermostats_off |-> success_count,
                thermostats_failed |-> fail_count,
                results |-> res]>>]

\* process_checkout_event after turn_off_thermostats has returned res at time t
after_turn_off(ledger, event, res, t) ==
    LET success_count == Cardinality({ d \in DOMAIN res : res[d] })
        fail_count == Cardinality(DOMAIN res) - success_count
    IN  [ledger |-> mark_processed(ledger, event, t),
         last_action_time |-> <<t>>,
         last_action_result |->
             <<[reservation_id |-> event.reservation_id,
                thermostats_off |-> success_count,
                thermostats_failed |-> fail_count,
                results |-> res]>>]

\* how the notification of an event can go: the notifier is not configured, the
\* mail is sent, _send_email returns False, or the call raises
SinkOutcomes == {"unconfigured", "sent", "failed", "raised"}

\* variant: a notification that fails takes the last action back
notify_undoes(out, event, outcome) ==
    [ledger |-> out.ledger,
     last_action_time |-> IF outcome \in {"failed", "raised"} THEN <<>>
                          ELSE out.last_action_time,
     last_action_result |-> IF outcome \in {"failed", "raised"} THEN <<>>
                            ELSE out.last_action_result,
     sink |-> IF outcome = "unconfigured" THEN <<>>
              ELSE <<[outcome |-> outcome,
                      reservation_id |-> event.reservation_id,
                      thermostat_results |-> out.last_action_result[1].results,
                      marked |-> event.reservation_id \in out.ledger.events,
                      recorded |-> out.last_action_result]>>]

\* the end of process_checkout_event: out is the state after the mark and the
\* last-action record; the notifier, if configured, is called with the results
\* and its outcome is logged, nothing else
notify(out, event, outcome) ==
    [ledger |-> out.ledger,
     last_action_time |-> out.last_action_time,
     last_action_result |-> out.last_action_result,
     sink |-> IF outcome = "unconfigured" THEN <<>>
              ELSE <<[outcome |-> outcome,
                      reservation_id |-> event.reservation_id,
                      thermostat_results |-> out.last_action_result[1].results,
                      marked |-> event.reservation_id \in out.ledger.events,
                      recorded |-> out.last_action_result]>>]

SetRun(p, loc, evs) ==
    /\ pc' = [pc EXCEPT ![p] = loc.pc]
    /\ events' = [events EXCEPT ![p] = loc.events]
    /\ idx' = [idx EXCEPT ![p] = loc.idx]
    /\ device_ids' = [device_ids EXCEPT ![p] = loc.device_ids]
    /\ dev_idx' = [dev_idx EXCEPT ![p] = loc.dev_idx]
    /\ attempt' = [attempt EXCEPT ![p] = loc.attempt]
    /\ results' = [results EXCEPT ![p] = loc.results]
    /\ event_log' = [event_log EXCEPT ![p] = loc.log]
    /\ tick_ledger' = [tick_ledger EXCEPT ![p] = IF loc.pc = "idle" THEN {} ELSE @]
    /\ parsed' = [parsed EXCEPT ![p] = IF loc.pc = "idle" THEN <<>> ELSE evs]

SetProc(p, loc) == SetRun(p, loc, parsed[p])

SetLedger(ledger) ==
    /\ processed_events' = ledger.events
    /\ processed_timestamps' = ledger.timestamps

TheLedger == Ledger(processed_events, processed_timestamps)

\* variant: the tick starts without the cleanup
begin_tick_no_cleanup(p) ==
    /\ last_poll_time' = <<now>>
    /\ pc' = [pc EXCEPT ![p] = "fetch"]
    /\ tick_ledger' = [tick_ledger EXCEPT ![p] = processed_events]
    /\ UNCHANGED <<now, ledgerVars, envVars, authVars, last_action_time,
                   last_action_result, events, idx, device_ids, dev_idx, attempt,
                   results, parsed, event_log, call>>

\* poll_calendar_job and get_actionable_checkouts up to the await of the fetch
begin_tick(p) ==
    LET ledger == cleanup_old_processed(TheLedger, now)
    IN  /\ last_poll_time' = <<now>>
        /\ SetLedger(ledger)
        /\ pc' = [pc EXCEPT ![p] = "fetch"]
        /\ tick_ledger' = [tick_ledger EXCEPT ![p] = ledger.events]
        /\ UNCHANGED <<now, envVars, authVars, last_action_time, last_action_result, events, idx,
                       device_ids, dev_idx, attempt, results, parsed, event_log, call>>

\* lifespan up to the await inside the initial poll; the startup discovery
\* (list_devices(force_refresh=True)) answers with the device list or fails
LifespanStartup(ok) ==
    /\ pc["initial"] = "boot"
    /\ devices_cache' = IF ok THEN <<thermostats(sdm_devices)>> ELSE devices_cache
    /\ scheduler_running' = TRUE
    /\ begin_tick("initial")

\* the interval trigger fires; max_instances=1 skips it while a timer run is active
TimerFires ==
    /\ scheduler_running
    /\ pc["timer"] = "idle"
    /\ begin_tick("timer")
    /\ UNCHANGED <<devices_cache, scheduler_running>>

\* POST /poll, served once the startup has completed
TriggerPoll ==
    /\ scheduler_running
    /\ pc["initial"] = "idle"
    /\ pc["manual"] = "idle"
    /\ begin_tick("manual")
    /\ UNCHANGED <<devices_cache, scheduler_running>>

\* variant: the None of fetch_calendar is not tested and the calendar of the
\* last good fetch is parsed
FetchFails_unchecked(p) ==
    /\ pc[p] = "fetch"
    /\ call' = [op |-> "fetch_calendar", ret |-> "None"]
    /\ LET evs == parse_events(feed, checkout_buffer_minutes, now)
           unprocessed == actionable(evs, processed_events)
       IN  SetRun(p, for_loop(unprocessed, 1, devices_cache, nest_device_ids, <<>>), evs)
    /\ UNCHANGED <<now, ledgerVars, devices_cache, envVars, authVars, scheduler_running,
                   mainVars>>

\* fetch_calendar returns None: get_actionable_checkouts returns []
FetchFails(p) ==
    /\ pc[p] = "fetch"
    /\ call' = [op |-> "fetch_calendar", ret |-> "None"]
    /\ SetProc(p, Idle)
    /\ UNCHANGED <<now, ledgerVars, devices_cache, envVars, authVars, scheduler_running,
                   mainVars>>

\* fetch_calendar returns the calendar: the rest of get_actionable_checkouts, then
\* poll_calendar_job up to its next await
FetchReturns(p) ==
    /\ pc[p] = "fetch"
    /\ call' = [op |-> "fetch_calendar", ret |-> "Calendar"]
    /\ LET evs == parse_events(feed, checkout_buffer_minutes, now)
           unprocessed == actionable(evs, processed_events)
       IN  SetRun(p, for_loop(unprocessed, 1, devices_cache, nest_device_ids, <<>>), evs)
    /\ UNCHANGED <<now, ledgerVars, devices_cache, envVars, authVars, scheduler_running,
                   mainVars>>

\* the listing call answers 200 with the device list
ListReturns(p) ==
    /\ pc[p] = "list"
    /\ devices_cache' = <<thermostats(sdm_devices)>>
    /\ call' = ListRecord(events[p][idx[p]], "returned", attempt[p], NoError)
    /\ SetProc(p, after_list_devices(events[p], idx[p], thermostats(sdm_devices),
                                     <<thermostats(sdm_devices)>>, nest_device_ids,
                                     event_log[p]))
    /\ UNCHANGED <<now, ledgerVars, envVars, authVars, scheduler_running, mainVars>>

\* an attempt of the listing call raises: tenacity waits and retries, or gives up
ListRaises(p, err) ==
    /\ pc[p] = "list"
    /\ IF retry_again(err, attempt[p])
       THEN /\ call' = ListRecord(events[p][idx[p]], "retry", attempt[p], err)
            /\ SetProc(p, Loc(events[p], "list_wait", idx[p], <<>>, 0, attempt[p] + 1,
                              <<>>, event_log[p]))
       ELSE /\ call' = ListRecord(events[p][idx[p]], "raised", attempt[p], err)
            /\ SetProc(p, except_event(events[p], idx[p], devices_cache,
                                       nest_device_ids, event_log[p]))
    /\ UNCHANGED <<now, ledgerVars, devices_cache, envVars, authVars, scheduler_running,
                   mainVars>>

\* the wait before a retry is over: list_devices runs again from its first line
ListRetry(p) ==
    /\ pc[p] = "list_wait"
    /\ IF cache_hit(devices_cache, FALSE)
       THEN SetProc(p, after_list_devices(events[p], idx[p], devices_cache[1],
                                          devices_cache, nest_device_ids, event_log[p]))
       ELSE SetProc(p, Loc(events[p], "list", idx[p], <<>>, 0, attempt[p], <<>>,
                           event_log[p]))
    /\ UNCHANGED <<now, ledgerVars, devices_cache, envVars, authVars, scheduler_running,
                   mainVars, call>>

\* the loop of turn_off_thermostats records v for the device in hand and goes on;
\* after the last device the rest of process_checkout_event runs
device_done(p, v, tag, err) ==
    LET evs == events[p]
        k == idx[p]
        ids == device_ids[p]
        d == ids[dev_idx[p]]
        res == [x \in DOMAIN results[p] \cup {d} |-> IF x = d THEN v ELSE results[p][x]]
        cur == event_log[p][Len(event_log[p])]
        cl == Append(cur.calls, [device_id |-> d, outcome |-> tag, error |-> err])
    IN  IF dev_idx[p] < Len(ids)
        THEN /\ call' = CallRecord("turn_off_thermostat", d, tag, attempt[p], err)
             /\ SetProc(p, Loc(evs, "set_mode", k, ids, dev_idx[p] + 1, 1, res,
                               SetLast(event_log[p], "fan_out", cl)))
             /\ UNCHANGED <<ledgerVars, last_action_time, last_action_result>>
        ELSE \E outcome \in SinkOutcomes :
                 LET out == notify(after_turn_off(TheLedger, evs[k], res, now),
                                   evs[k], outcome)
                 IN  /\ call' = [CallRecord("turn_off_thermostat", d, tag, attempt[p],
                                            err) EXCEPT !.sink = out.sink]
                     /\ SetLedger(out.ledger)
                     /\ last_action_time' = out.last_action_time
                     /\ last_action_result' = out.last_action_result
                     /\ SetProc(p, for_loop(evs, k + 1, devices_cache, nest_device_ids,
                                            SetLast(event_log[p], "done", cl)))

\* variant: the exception leaves turn_off_thermostats
fan_out_raises(p, err) ==
    /\ SetProc(p, except_event(events[p], idx[p], devices_cache, nest_device_ids,
                               event_log[p]))
    /\ UNCHANGED <<ledgerVars, last_action_time, last_action_result, call>>

\* the except clause of turn_off_thermostats: False for the device, go on
fan_out_except(p, err) == device_done(p, FALSE, "raised", err)

\* the mode command answers: 200 gives True, another 2xx passes raise_for_status
\* and gives False
SetModeReturns(p, status) ==
    /\ pc[p] = "set_mode"
    /\ device_done(p, status = 200, IF status = 200 THEN "true" ELSE "false", NoError)
    /\ UNCHANGED <<now, devices_cache, envVars, authVars, scheduler_running, last_poll_time>>

\* an attempt of the mode command raises: tenacity waits and retries, or gives up
SetModeRaises(p, err) ==
    /\ pc[p] = "set_mode"
    /\ IF retry_again(err, attempt[p])
       THEN /\ attempt' = [attempt EXCEPT ![p] = attempt[p] + 1]
            /\ call' = CallRecord("turn_off_thermostat", device_ids[p][dev_idx[p]],
                                  "retry", attempt[p], err)
            /\ UNCHANGED <<ledgerVars, last_action_time, last_action_result, pc, events,
                           idx, device_ids, dev_idx, results, histVars>>
       ELSE fan_out_except(p, err)
    /\ UNCHANGED <<now, devices_cache, envVars, authVars, scheduler_running, last_poll_time>>

\* time passes; a run lasts minutes (every await has a 30 s timeout and the
\* retries are bounded), so a half day passes between runs only
AdvanceClock(d) ==
    /\ \A p \in Procs : ~Active(p)
    /\ now + d <= MaxHalfDays * 12 * 60
    /\ now' = now + d
    /\ UNCHANGED <<ledgerVars, devices_cache, envVars, authVars, scheduler_running,
                   mainVars, procVars, histVars, call>>

\* the state after construction, for a configuration and an environment
InitWith(nows, cfgs, feeds, sdms) ==
    /\ now \in nows
    /\ processed_events = {}
    /\ processed_timestamps = <<>>
    /\ devices_cache = <<>>
    /\ nest_device_ids \in cfgs
    /\ feed \in feeds
    /\ sdm_devices \in sdms
    /\ scheduler_running = FALSE
    /\ last_poll_time = <<>>
    /\ last_action_time = <<>>
    /\ last_action_result = <<>>
    /\ pc = [p \in Procs |-> IF p = "initial" THEN "boot" ELSE "idle"]
    /\ events = [p \in Procs |-> <<>>]
    /\ idx = [p \in Procs |-> 0]
    /\ device_ids = [p \in Procs |-> <<>>]
    /\ dev_idx = [p \in Procs |-> 0]
    /\ attempt = [p \in Procs |-> 0]
    /\ results = [p \in Procs |-> <<>>]
    /\ tick_ledger = [p \in Procs |-> {}]
    /\ parsed = [p \in Procs |-> <<>>]
    /\ event_log = [p \in Procs |-> <<>>]
    /\ credentials_token = <<>>
    /\ credentials_expiry = <<>>
    /\ last_refresh = <<>>
    /\ call = [op |-> "none"]

Next ==
    \/ \E ok \in BOOLEAN : LifespanStartup(ok)
    \/ TimerFires
    \/ TriggerPoll
    \/ \E p \in Procs : FetchFails(p)
    \/ \E p \in Procs : FetchReturns(p)
    \/ \E p \in Procs : ListReturns(p)
    \/ \E p \in Procs, err \in TickErrors : ListRaises(p, err)
    \/ \E p \in Procs : ListRetry(p)
    \/ \E p \in Procs, status \in {200, 204} : SetModeReturns(p, status)
    \/ \E p \in Procs, err \in TickErrors : SetModeRaises(p, err)
    \/ \E d \in ClockSteps : AdvanceClock(d)

\* the triggers as they come: a run may start while another is suspended
Init == InitWith({0}, {<<>>}, {<<EntA, EntA2>>, <<EntB, EntA>>},
                 {<<Device("d1", TRUE), Device("cam", FALSE)>>})
Spec == Init /\ [][Next]_vars

\* the triggers one after the other: no run starts while another is active
NoRunActive == \A p \in Procs : ~Active(p)
InitSerial == InitWith({0}, ConfiguredIds, Calendars, ListResponses)
NextSerial ==
    \/ \E ok \in BOOLEAN : LifespanStartup(ok)
    \/ NoRunActive /\ TimerFires
    \/ NoRunActive /\ TriggerPoll
    \/ \E p \in Procs : FetchFails(p)
    \/ \E p \in Procs : FetchReturns(p)
    \/ \E p \in Procs : ListReturns(p)
    \/ \E p \in Procs, err \in TickErrors : ListRaises(p, err)
    \/ \E p \in Procs : ListRetry(p)
    \/ \E p \in Procs, status \in {200, 204} : SetModeReturns(p, status)
    \/ \E p \in Procs, err \in TickErrors : SetModeRaises(p, err)
    \/ \E d \in ClockSteps : AdvanceClock(d)
SpecSerial == InitSerial /\ [][NextSerial]_vars

\* the steps of the runs.  Every await of a run ends: the HTTP clients have a
\* timeout of 30 s and the wait before a retry is at most 30 s.
RunSteps ==
    \/ \E p \in Procs : FetchFails(p)
    \/ \E p \in Procs : FetchReturns(p)
    \/ \E p \in Procs : ListReturns(p)
    \/ \E p \in Procs, err \in TickErrors : ListRaises(p, err)
    \/ \E p \in Procs : ListRetry(p)
    \/ \E p \in Procs, status \in {200, 204} : SetModeReturns(p, status)
    \/ \E p \in Procs, err \in TickErrors : SetModeRaises(p, err)
\* two actionable events in the first tick, and a listing with two thermostats or
\* with none
InitFair == InitWith({0}, {<<>>}, {<<EntA, EntA2>>}, ListResponses)
SpecSerialFair == InitFair /\ [][NextSerial]_vars /\ WF_vars(RunSteps)

(***************************************************************************)
(* The ledger on its own: any order of mark_processed, cleanup_old_processed*)
(* and filter_unprocessed, with the clock moving around half a day.        *)
(***************************************************************************)
LedgerEvents == {CheckoutEvent(EntA), CheckoutEvent(EntC)}
FilterInputs ==
    { <<>>,
      <<CheckoutEvent(EntA), CheckoutEvent(EntC)>>,
      <<CheckoutEvent(EntC), CheckoutEvent(EntA)>>,
      <<CheckoutEvent(EntA), CheckoutEvent(EntC), CheckoutEvent(EntA2)>> }
LedgerClockSteps == {12 * 60 - 1, 12 * 60, 12 * 60 + 1}

MarkProcessed(event) ==
    /\ SetLedger(mark_processed(TheLedger, event, now))
    /\ call' = [op |-> "mark_processed", reservation_id |-> event.reservation_id,
                before |-> TheLedger]
    /\ UNCHANGED <<now, devices_cache, envVars, authVars, scheduler_running, mainVars,
                   procVars, histVars>>

CleanupOldProcessed ==
    /\ SetLedger(cleanup_old_processed(TheLedger, now))
    /\ call' = [op |-> "cleanup_old_processed", before |-> TheLedger]
    /\ UNCHANGED <<now, devices_cache, envVars, authVars, scheduler_running, mainVars,
                   procVars, histVars>>

FilterUnprocessed(evs) ==
    /\ call' = [op |-> "filter_unprocessed", events |-> evs, ledger |-> TheLedger,
                ret |-> filter_unprocessed(evs, processed_events)]
    /\ UNCHANGED <<now, ledgerVars, devices_cache, envVars, authVars, scheduler_running,
                   mainVars, procVars, histVars>>

LedgerClock(d) ==
    /\ now + d <= MaxHalfDays * 12 * 60
    /\ now' = now + d
    /\ call' = [op |-> "none"]
    /\ UNCHANGED <<ledgerVars, devices_cache, envVars, authVars, scheduler_running, mainVars,
                   procVars, histVars>>

InitLedger == InitWith({0}, {<<>>}, {<<>>}, {<<>>})
NextLedger ==
    \/ \E event \in LedgerEvents : MarkProcessed(event)
    \/ CleanupOldProcessed
    \/ \E evs \in FilterInputs : FilterUnprocessed(evs)
    \/ \E d \in LedgerClockSteps : LedgerClock(d)
SpecLedger == InitLedger /\ [][NextLedger]_vars

(***************************************************************************)
(* parse_events on its own, over one-entry and two-entry calendars.        *)
(***************************************************************************)
\* the instant of the parse; starts and ends lie around it and around the
\* start of each buffer
ParseNow == 100
ParseBuffers == {0, checkout_buffer_minutes, 90}
ParseStarts ==
    { Dt("datetime", ParseNow - b + d) :
          b \in ParseBuffers \cup {default_duration_hours * 60}, d \in {-1, 0, 1} }
        \cup { Dt("naive", ParseNow - checkout_buffer_minutes),
               Dt("date", ParseNow - checkout_buffer_minutes), Absent }
ParseEnds ==
    { Dt("datetime", ParseNow + d) : d \in {-95, -1, 0, 1} }
        \cup { Dt("date", ParseNow + 1), Absent }
ParseCalendars ==
    { <<VEvent(s, d, b, e)>> :
          s \in Summaries, d \in Descriptions, b \in ParseStarts, e \in ParseEnds }
        \cup { <<VEvent(SumStay, DescKeyword, b, Absent), EntA>> : b \in ParseStarts }
        \cup { <<VEvent(SumLongA, d, Dt("datetime", ParseNow), Absent),
                 VEvent(SumLongB, d, Dt("datetime", ParseNow), Absent)>> :
                   d \in Descriptions \cup {DescNoToken} }
        \cup { <<EntA, VEvent(SumCheckOut, DescB, b, e),
                 VEvent(SumStay, DescKeyword, Dt("datetime", ParseNow), Absent)>> :
                   b \in {Dt("date", ParseNow), Dt("datetime", ParseNow), Absent},
                   e \in {Dt("date", ParseNow + 1), Dt("datetime", ParseNow + 1), Absent} }

ParseEvents(buffer_minutes) ==
    /\ call.op = "none"
    /\ call' = [op |-> "parse_events", buffer_minutes |-> buffer_minutes,
                ret |-> parse_events(feed, buffer_minutes, now)]
    /\ UNCHANGED <<now, ledgerVars, devices_cache, envVars, authVars, scheduler_running,
                   mainVars, procVars, histVars>>

InitParse == InitWith({ParseNow}, {<<>>}, ParseCalendars, {<<>>})
NextParse == \E buffer_minutes \in ParseBuffers : ParseEvents(buffer_minutes)
SpecParse == InitParse /\ [][NextParse]_vars

(***************************************************************************)
(* turn_off_thermostats on its own: a /poll run that has reached the       *)
(* fan-out of its only event, for every configured list of device ids.     *)
(***************************************************************************)
FanoutIds == UNION { [1..n -> DeviceIds] : n \in 1..MaxDevices }

InitFanout ==
    /\ now = 0
    /\ processed_events = {}
    /\ processed_timestamps = <<>>
    /\ devices_cache = << <<>> >>
    /\ nest_device_ids \in FanoutIds
    /\ feed = <<EntA>>
    /\ sdm_devices = <<>>
    /\ scheduler_running = TRUE
    /\ last_poll_time = <<0>>
    /\ last_action_time = <<>>
    /\ last_action_result = <<>>
    /\ pc = [p \in Procs |-> IF p = "manual" THEN "set_mode" ELSE "idle"]
    /\ events = [p \in Procs |-> IF p = "manual" THEN <<CheckoutEvent(EntA)>> ELSE <<>>]
    /\ idx = [p \in Procs |-> IF p = "manual" THEN 1 ELSE 0]
    /\ device_ids = [p \in Procs |-> IF p = "manual" THEN nest_device_ids ELSE <<>>]
    /\ dev_idx = [p \in Procs |-> IF p = "manual" THEN 1 ELSE 0]
    /\ attempt = [p \in Procs |-> IF p = "manual" THEN 1 ELSE 0]
    /\ results = [p \in Procs |-> <<>>]
    /\ tick_ledger = [p \in Procs |-> {}]
    /\ parsed = [p \in Procs |-> IF p = "manual" THEN <<CheckoutEvent(EntA)>> ELSE <<>>]
    /\ event_log = [p \in Procs |->
                       IF p = "manual"
                       THEN <<LogEntry(CheckoutEvent(EntA).reservation_id, "fan_out", <<>>)>>
                       ELSE <<>>]
    /\ credentials_token = <<>>
    /\ credentials_expiry = <<>>
    /\ last_refresh = <<>>
    /\ call = [op |-> "none"]
NextFanout ==
    \/ \E status \in {200, 204} : SetModeReturns("manual", status)
    \/ \E err \in Errors : SetModeRaises("manual", err)
SpecFanout == InitFanout /\ [][NextFanout]_vars

(***************************************************************************)
(* get_valid_token on its own, the clock moving by minutes.                *)
(***************************************************************************)
\* the token clock stops here
MaxTokenMinutes == 12
TokenClockSteps == {1, 4}
Lifetimes == {5, 10, 15}
RefreshOutcomes == { Granted(<<l>>) : l \in Lifetimes } \cup { Granted(<<>>), Refused }

GetValidToken(outcome) ==
    LET st == TokenState(credentials_token, credentials_expiry, last_refresh)
        r == get_valid_token(st, now, outcome)
    IN  /\ credentials_token' = r.state.token
        /\ credentials_expiry' = r.state.expiry
        /\ last_refresh' = r.state.last_refresh
        /\ call' = [op |-> "get_valid_token", refreshes |-> r.refreshes,
                    raised |-> r.raised, ret |-> r.ret, before |-> st]
        /\ UNCHANGED <<now, ledgerVars, devices_cache, envVars, scheduler_running,
                       mainVars, procVars, histVars>>

TokenClock(d) ==
    /\ now + d <= MaxTokenMinutes
    /\ now' = now + d
    /\ call' = [op |-> "none"]
    /\ UNCHANGED <<ledgerVars, devices_cache, envVars, authVars, scheduler_running,
                   mainVars, procVars, histVars>>

InitToken == InitWith({0}, {<<>>}, {<<>>}, {<<>>})
NextToken ==
    \/ \E outcome \in RefreshOutcomes : GetValidToken(outcome)
    \/ \E d \in TokenClockSteps : TokenClock(d)
SpecToken == InitToken /\ [][NextToken]_vars

(***************************************************************************)
(* list_devices on its own, called with and without force_refresh (the     *)
(* poll, GET /devices, the startup discovery), the inventory changing      *)
(* between calls.                                                          *)
(***************************************************************************)
CacheResponses ==
    { <<>>, <<Device("cam", FALSE)>>, <<Device("d1", TRUE), Device("cam", FALSE)>>,
      <<Device("d2", TRUE)>>,
      <<Device("d1", TRUE), Device("cam", FALSE), Device("d2", TRUE)>> }

\* a failed attempt is retried while retry_again allows it, so a call raises at
\* its third attempt, or earlier on an error that is not retried
Answers ==
    { Answer(TRUE, r, a, NoError) : r \in CacheResponses, a \in 1..stop_after_attempt }
    \cup { Answer(FALSE, <<>>, a, e) :
             a \in 1..stop_after_attempt,
             e \in { x \in Errors : x.class # "RefreshError" } }

ListDevices(force_refresh, answer) ==
    LET r == list_devices(devices_cache, force_refresh, answer)
    IN  /\ ~answer.ok => ~retry_again(answer.error, answer.attempts)
        /\ devices_cache' = r.cache
        /\ call' = [op |-> "list_devices", force_refresh |-> force_refresh,
                    before |-> devices_cache, requests |-> r.requests,
                    raised |-> r.raised, ret |-> r.ret,
                    error |-> IF r.raised THEN answer.error ELSE NoError,
                    response |-> IF r.requests > 0 /\ ~r.raised
                                 THEN answer.response ELSE <<>>]
        /\ UNCHANGED <<now, ledgerVars, envVars, authVars, scheduler_running,
                       mainVars, procVars, histVars>>

InitCache == InitWith({0}, {<<>>}, {<<>>}, {<<>>})
NextCache == \E f \in BOOLEAN, answer \in Answers : ListDevices(f, answer)
SpecCache == InitCache /\ [][NextCache]_vars

(***************************************************************************)
(* A call of the device client on its own, attempt by attempt, with the    *)
(* token manager behind it and the clock moving by minutes.                *)
(***************************************************************************)
ClientOps == {"list_devices", "set_thermostat_mode"}
ClientRefreshes == { Granted(<<5>>), Granted(<<15>>), Refused }
ClientAnswers ==
    { Answer(TRUE, r, 1, NoError) :
          r \in { <<>>, <<Device("d1", TRUE), Device("cam", FALSE)>> } }
    \cup { Answer(FALSE, <<>>, 1, e) : e \in { Err("HTTPStatusError", 503),
                                              Err("TimeoutException", 0) } }

AttemptRecord(op, a, token_calls, sent, bearer, err, outcome) ==
    [op |-> op, attempt |-> a, token_calls |-> token_calls, sent |-> sent,
     bearer |-> bearer, error |-> err, outcome |-> outcome,
     wait |-> IF outcome = "retry" THEN wait_exponential(a) ELSE 0]

\* the client is called: list_devices may return its cache at once
ClientCall(op, force_refresh) ==
    /\ pc["manual"] = "idle"
    /\ IF op = "list_devices" /\ cache_hit(devices_cache, force_refresh)
       THEN /\ call' = AttemptRecord(op, 0, 0, FALSE, <<>>, NoError, "cached")
            /\ UNCHANGED <<pc, attempt>>
       ELSE /\ pc' = [pc EXCEPT !["manual"] =
                         IF op = "list_devices" THEN "list" ELSE "set_mode"]
            /\ attempt' = [attempt EXCEPT !["manual"] = 1]
            /\ call' = [op |-> "none"]
    /\ UNCHANGED <<now, ledgerVars, devices_cache, envVars, authVars, scheduler_running,
                   mainVars, events, idx, device_ids, dev_idx, results, histVars>>

\* one attempt of the call in flight
ClientAttempt(refresh, answer) ==
    LET op == IF pc["manual"] = "list" THEN "list_devices" ELSE "set_thermostat_mode"
        a == http_attempt(TokenState(credentials_token, credentials_expiry, last_refresh),
                          now, refresh, answer)
        outcome == IF a.error = NoError THEN "returned"
                   ELSE IF retry_again(a.error, attempt["manual"]) THEN "retry"
                   ELSE "raised"
    IN  /\ pc["manual"] \in {"list", "set_mode"}
        /\ credentials_token' = a.state.token
        /\ credentials_expiry' = a.state.expiry
        /\ last_refresh' = a.state.last_refresh
        /\ devices_cache' = IF op = "list_devices" /\ outcome = "returned"
                            THEN <<thermostats(answer.response)>> ELSE devices_cache
        /\ pc' = [pc EXCEPT !["manual"] = IF outcome = "retry" THEN @ ELSE "idle"]
        /\ attempt' = [attempt EXCEPT !["manual"] = IF outcome = "retry" THEN @ + 1 ELSE 0]
        /\ call' = AttemptRecord(op, attempt["manual"], a.token_calls, a.sent, a.bearer,
                                 a.error, outcome)
        /\ UNCHANGED <<now, ledgerVars, envVars, scheduler_running, mainVars, events,
                       idx, device_ids, dev_idx, results, histVars>>

\* time passes, also between the attempts of a call (the backoff, whose seconds
\* are recorded in the attempt's wait and are below the clock's minutes)
ClientClock(d) ==
    /\ now + d <= MaxTokenMinutes
    /\ now' = now + d
    /\ UNCHANGED <<ledgerVars, devices_cache, envVars, authVars, scheduler_running,
                   mainVars, procVars, histVars, call>>

InitClient == InitWith({0}, {<<>>}, {<<>>}, {<<>>})
NextClient ==
    \/ \E op \in ClientOps, f \in BOOLEAN : ClientCall(op, f)
    \/ \E refresh \in ClientRefreshes, answer \in ClientAnswers : ClientAttempt(refresh, answer)
    \/ \E d \in TokenClockSteps : ClientClock(d)
SpecClient == InitClient /\ [][NextClient]_vars

(***************************************************************************)
(* Properties.                                                             *)
(***************************************************************************)
\* the run p is past the fetch: its event list exists
Processing(p) == pc[p] \in {"list", "list_wait", "set_mode"}

\* the run p has invoked the fan-out for the i-th event of its list
FannedOut(p, i) == event_log[p][i].status \in {"fan_out", "done"}

\* the event the run p is working on
CurrentEvent(p) == events[p][idx[p]]

\* C1: with ticks that do not overlap, an id that an earlier tick marked after its
\* fan-out and that the cleanup at the start of this tick has kept (tick_ledger)
\* is not among the events get_actionable_checkouts returns to this tick, and
\* this tick invokes no fan-out for it.
C1_NoRepeatBeforeEviction ==
    \A p \in Procs :
        Processing(p) =>
            /\ \A i \in 1..Len(events[p]) :
                   events[p][i].reservation_id \notin tick_ledger[p]
            /\ \A i \in 1..Len(event_log[p]) :
                   event_log[p][i].reservation_id \notin tick_ledger[p]

\* a later tick sends a command while the calendar still shows, with the keyword,
\* an entry whose id an earlier tick marked
C1_Witness ==
    \E p \in Procs :
        /\ pc[p] = "set_mode"
        /\ \E i \in 1..Len(parsed[p]) :
               /\ parsed[p][i].has_trigger_keyword
               /\ parsed[p][i].reservation_id \in tick_ledger[p]

\* C2: poll runs exclude one another whatever started them (timer, initial poll,
\* POST /poll): there are never two runs that are both in the fan-out for the
\* same reservation id.
C2_NoConcurrentActuation ==
    \A p, q \in Procs :
        (p # q /\ pc[p] = "set_mode" /\ pc[q] = "set_mode") =>
            CurrentEvent(p).reservation_id # CurrentEvent(q).reservation_id

\* C3: within one tick, the fan-out is invoked at most once per reservation id.
C3_OneFanOutPerId ==
    \A p \in Procs :
        \A i, j \in 1..Len(event_log[p]) :
            (i < j /\ FannedOut(p, i) /\ FannedOut(p, j)) =>
                event_log[p][i].reservation_id # event_log[p][j].reservation_id

\* C4: filter_unprocessed returns exactly the input events whose id is not in the
\* ledger, in their input order, and leaves the ledger as it was.
C4_FilterExact ==
    call.op = "filter_unprocessed" =>
        /\ call.ret = SelectSeq(call.events,
                                LAMBDA e : e.reservation_id \notin processed_events)
        /\ TheLedger = call.ledger

\* a filter call that drops a processed event and keeps a later unprocessed one
C4_Witness ==
    /\ call.op = "filter_unprocessed"
    /\ \E i, j \in 1..Len(call.events) :
           /\ i < j
           /\ call.events[i].reservation_id \in processed_events
           /\ call.events[j].reservation_id \notin processed_events
    /\ call.ret # <<>>

\* C5 as stated: a cleanup at time t removes the id marked at T if t >= T +
\* max_age_hours (equality included) and keeps it if t < T + max_age_hours.
C5_EvictedAtBoundary ==
    [][call'.op = "cleanup_old_processed" =>
           \A r \in processed_events :
               (r \in processed_events') <=>
                   (now < processed_timestamps[r] + max_age_hours * 60)]_vars

\* C5 amended: mark_processed at time T records T for the id; a cleanup at time t
\* removes the id iff t > T + max_age_hours, so at t = T + max_age_hours the id
\* is still processed; no other operation removes an id.
C5_EvictedAfterBoundary ==
    [][/\ call'.op = "cleanup_old_processed" =>
              \A r \in processed_events :
                  (r \in processed_events') <=>
                      (now <= processed_timestamps[r] + max_age_hours * 60)
       /\ call'.op = "mark_processed" =>
              /\ call'.reservation_id \in processed_events'
              /\ processed_timestamps'[call'.reservation_id] = now
       /\ call'.op # "cleanup_old_processed" => processed_events \subseteq processed_events'
       /\ DOMAIN processed_timestamps' = processed_events']_vars

\* a cleanup exactly max_age_hours after the mark has kept the id
C5_Witness ==
    /\ call.op = "cleanup_old_processed"
    /\ \E r \in processed_events :
           now = processed_timestamps[r] + max_age_hours * 60

\* the step ends the fan-out of the event the run p is working on
LeavesFanOut(p) ==
    /\ pc[p] = "set_mode"
    /\ pc'[p] # "set_mode" \/ idx'[p] # idx[p]

\* C6: an event whose fan-out was invoked is marked processed, with the time of
\* the mark, by the step that ends its fan-out, whatever the per-device results
\* (all failed included), and stays marked for the rest of the tick.
C6_MarkedWhateverResults ==
    /\ [][\A p \in Procs :
              LeavesFanOut(p) =>
                  /\ CurrentEvent(p).reservation_id \in processed_events'
                  /\ processed_timestamps'[CurrentEvent(p).reservation_id] = now]_vars
    /\ [](\A p \in Procs :
              \A i \in 1..Len(event_log[p]) :
                  event_log[p][i].status = "done" =>
                      event_log[p][i].reservation_id \in processed_events)

\* a fan-out over two devices in which every command failed, its event marked
C6_Witness ==
    /\ last_action_result # <<>>
    /\ last_action_result[1].thermostats_off = 0
    /\ last_action_result[1].thermostats_failed >= 2
    /\ last_action_result[1].reservation_id \in processed_events

\* a calendar entry with an instant as start and no all-day end
Timed(c) ==
    /\ c.dtstart.kind \in {"datetime", "naive"}
    /\ c.dtend.kind \in {"absent", "datetime", "naive"}

\* the event parse_events builds from the entry c is in the list evs
KeptIn(evs, c) == \E j \in 1..Len(evs) : evs[j] = CheckoutEvent(c)

\* C7: a timed entry that passes the content rule is kept by parse_events iff
\* (now - b <= s <= now) or (s <= now <= e), with e = s + 1 hour when the entry
\* has no end; an entry with s > now is excluded; an entry with s < now - b and
\* e < now is excluded.
C7_WindowRule ==
    call.op = "parse_events" =>
        \A i \in 1..Len(feed) :
            LET c == feed[i]
                b == call.buffer_minutes
                s == c.dtstart.t
                e == IF c.dtend.kind = "absent"
                     THEN s + default_duration_hours * 60 ELSE c.dtend.t
                qualifies == is_checkout(c.summary) \/ has_trigger(c.description)
            IN  Timed(c) =>
                    /\ qualifies =>
                           (KeptIn(call.ret, c) <=>
                                \/ now - b <= s /\ s <= now
                                \/ s <= now /\ now <= e)
                    /\ s > now => ~KeptIn(call.ret, c)
                    /\ (s < now - b /\ e < now) => ~KeptIn(call.ret, c)

\* an entry that started exactly b minutes ago and has ended is kept
C7_Witness ==
    /\ call.op = "parse_events"
    /\ call.buffer_minutes > 0
    /\ \E i \in 1..Len(feed) :
           /\ Timed(feed[i])
           /\ feed[i].dtstart.t = now - call.buffer_minutes
           /\ feed[i].dtend.kind = "datetime"
           /\ feed[i].dtend.t < now
           /\ KeptIn(call.ret, feed[i])

\* needle occurs in text, letters compared without case
ci_contains(needle, text) ==
    LET n == [j \in 1..Len(needle) |-> lower_char(needle[j])]
        t == [j \in 1..Len(text) |-> lower_char(text[j])]
    IN  \E k \in 0..(Len(t) - Len(n)) : \A j \in 1..Len(n) : t[k + j] = n[j]

\* the keyword occurs in the description of the entry c
Keyworded(c) == ci_contains(trigger_keyword, c.description)

\* C8 for the events of a run: an in-window entry is a checkout event iff its
\* summary contains "check-out" or "checkout" or its description contains the
\* trigger keyword, case ignored; its has_trigger_keyword says whether the
\* description contains the keyword; the events handed to process_checkout_event
\* are parsed events with has_trigger_keyword.
C8_KeywordGate ==
    \A p \in Procs :
        Processing(p) =>
            /\ \A i \in 1..Len(feed) :
                   LET c == feed[i]
                       ev == CheckoutEvent(c)
                       kw == Keyworded(c)
                   IN  (Timed(c) /\ in_time_window(c.dtstart.t, event_end_of(c), now,
                                                   checkout_buffer_minutes)) =>
                           /\ (\E j \in 1..Len(parsed[p]) : parsed[p][j] = ev) <=>
                                  \/ ci_contains(CHECK_OUT, c.summary)
                                  \/ ci_contains(CHECKOUT, c.summary)
                                  \/ kw
                           /\ ev.has_trigger_keyword <=> kw
            /\ \A i \in 1..Len(events[p]) :
                   /\ events[p][i].has_trigger_keyword
                   /\ \E j \in 1..Len(parsed[p]) : parsed[p][j] = events[p][i]

\* C8 for the ledger: an id enters the ledger only as the id of the event whose
\* fan-out a run is ending, an event with has_trigger_keyword.
C8_MarksKeyworded ==
    \A r \in processed_events' \ processed_events :
        \E p \in Procs :
            /\ LeavesFanOut(p)
            /\ CurrentEvent(p).reservation_id = r
            /\ CurrentEvent(p).has_trigger_keyword

\* C8: the content rule of parse_events, and only events with has_trigger_keyword
\* reach a device command or the ledger; a checkout-labelled entry without the
\* keyword is neither actuated nor marked.
C8_ContentRule == []C8_KeywordGate /\ [][C8_MarksKeyworded]_vars

\* a run sends a command while the calendar shows an in-window checkout entry
\* without the keyword, which parse_events kept
C8_Witness ==
    \E p \in Procs :
        /\ pc[p] = "set_mode"
        /\ \E j \in 1..Len(parsed[p]) : ~parsed[p][j].has_trigger_keyword

\* the device ids of the fan-out of run p up to position n
IdsUpTo(p, n) == { device_ids[p][i] : i \in 1..n }

\* C9 during the loop: the ids are attempted in input order, one by one, and the
\* dict holds one key per attempted id, true iff its (last) command succeeded.
C9_InOrder ==
    \A p \in Procs :
        pc[p] = "set_mode" =>
            LET ids == device_ids[p]
                n == dev_idx[p] - 1
                cl == event_log[p][Len(event_log[p])].calls
            IN  /\ dev_idx[p] \in 1..Len(ids)
                /\ Len(cl) = n
                /\ \A i \in 1..n : cl[i].device_id = ids[i]
                /\ DOMAIN results[p] = IdsUpTo(p, n)
                /\ \A i \in 1..n :
                       (\A j \in (i + 1)..n : ids[j] # ids[i]) =>
                           (results[p][ids[i]] <=> cl[i].outcome = "true")

\* C9 at the return: turn_off_thermostats returns, without raising, after the
\* last id, a dict with one key per id (N keys for N distinct ids), the last
\* id's value true iff its command succeeded and the other values as recorded.
C9_Returns ==
    \A p \in Procs :
        LeavesFanOut(p) =>
            LET ids == device_ids[p]
                d == ids[Len(ids)]
                res == last_action_result'[1].results
            IN  /\ dev_idx[p] = Len(ids)
                /\ last_action_result' # <<>>
                /\ last_action_result'[1].reservation_id = CurrentEvent(p).reservation_id
                /\ DOMAIN res = IdsUpTo(p, Len(ids))
                /\ (\A i, j \in 1..Len(ids) : ids[i] = ids[j] => i = j) =>
                       Cardinality(DOMAIN res) = Len(ids)
                /\ call'.op = "turn_off_thermostat" /\ call'.device_id = d
                /\ res[d] <=> call'.outcome = "true"
                /\ \A x \in DOMAIN res \ {d} : res[x] = results[p][x]

\* C9: turn_off_thermostats over N distinct ids attempts every id in order, never
\* raises, and returns exactly N keys, false iff the id's command failed.
C9_FanOutTotal == []C9_InOrder /\ [][C9_Returns]_vars

\* the first id failed and a later id was still turned off
C9_Witness ==
    /\ last_action_result # <<>>
    /\ Len(nest_device_ids) >= 2
    /\ \E i \in 2..Len(nest_device_ids) :
           /\ nest_device_ids[i] # nest_device_ids[1]
           /\ ~last_action_result[1].results[nest_device_ids[1]]
           /\ last_action_result[1].results[nest_device_ids[i]]

\* C10 during the run: the run has handled its events one by one; every event
\* before the current one has ended, by raising or by returning.
C10_OneByOne ==
    \A p \in Procs :
        Processing(p) =>
            /\ idx[p] \in 1..Len(events[p])
            /\ Len(event_log[p]) = idx[p]
            /\ \A i \in 1..idx[p] :
                   /\ event_log[p][i].reservation_id = events[p][i].reservation_id
                   /\ i < idx[p] =>
                          event_log[p][i].status \in {"raised", "no_thermostats", "done"}

\* C10 at the end: a run that has events returns only from its last event; an
\* event that raises hands over to the next event.
C10_EndsAfterLast ==
    \A p \in Procs :
        (Processing(p) /\ ~Processing(p)') =>
            /\ idx[p] = Len(events[p])
            /\ pc'[p] = "idle"

\* C10: an exception while one event is processed (the device listing failing,
\* say) does not stop the remaining events of the tick, and the tick returns.
C10_FailureContained == []C10_OneByOne /\ [][C10_EndsAfterLast]_vars

\* the first event of a tick raised and a later event of the tick is in its fan-out
C10_Witness ==
    \E p \in Procs :
        /\ pc[p] = "set_mode"
        /\ idx[p] >= 2
        /\ event_log[p][1].status = "raised"

\* the step is the return of fetch_calendar with None to the run p
FetchFailed(p) ==
    /\ pc[p] = "fetch"
    /\ pc'[p] # "fetch"
    /\ call'.op = "fetch_calendar"
    /\ call'.ret = "None"

\* C11 at the failure: the run returns at once, with no event to process, and
\* the step changes neither the ledger nor the device cache nor the last action.
C11_SkipsOnFailure ==
    \A p \in Procs :
        FetchFailed(p) =>
            /\ pc'[p] = "idle"
            /\ events'[p] = <<>>
            /\ UNCHANGED <<ledgerVars, devices_cache, last_action_time,
                           last_action_result, last_poll_time>>

\* C11 before the failure: up to the fetch, a run has set the last-poll timestamp
\* and evicted from the ledger, nothing else.
C11_OnlyEvictionAndTimestamp ==
    \A p \in Procs :
        (pc[p] = "idle" /\ pc'[p] = "fetch") =>
            /\ processed_events' \subseteq processed_events
            /\ last_poll_time' = <<now>>
            /\ UNCHANGED <<devices_cache, last_action_time, last_action_result>>

\* C11: a tick whose fetch returns None ends as skipped: no device call, no mark,
\* no notification; it changed only the ledger (by eviction) and last_poll_time.
C11_FetchFailureSkipsTick ==
    [][C11_SkipsOnFailure /\ C11_OnlyEvictionAndTimestamp]_vars

\* a tick whose fetch failed has ended while the calendar holds an actionable
\* entry, after an earlier tick marked an event
C11_Witness ==
    /\ call.op = "fetch_calendar"
    /\ call.ret = "None"
    /\ NoRunActive
    /\ last_poll_time = <<now>>
    /\ processed_events # {}
    /\ actionable(parse_events(feed, checkout_buffer_minutes, now), processed_events)
           # <<>>

\* the ids of the thermostat-capable devices the listing call answers with
ListedThermostats == { sdm_devices[i].device_id :
                         i \in { k \in 1..Len(sdm_devices) : sdm_devices[k].thermostat } }

\* the targets the claim names: the configured ids, or else the listed thermostats
Targets == IF nest_device_ids # <<>>
           THEN { nest_device_ids[i] : i \in 1..Len(nest_device_ids) }
           ELSE ListedThermostats

\* C12 during the fan-out: the list handed to turn_off_thermostats is the
\* configured list if it is non-empty and else the list list_devices returned,
\* and every command sent goes to an id of the targets.
C12_TargetsInFanOut ==
    \A p \in Procs :
        pc[p] = "set_mode" =>
            /\ device_ids[p] = IF nest_device_ids # <<>> THEN nest_device_ids
                               ELSE devices_cache[1]
            /\ IdsUpTo(p, Len(device_ids[p])) = Targets
            /\ LET cl == event_log[p][Len(event_log[p])].calls
               IN  \A i \in 1..Len(cl) : cl[i].device_id \in Targets

\* C12 at the end of the fan-out: the ids commanded are exactly the targets.
C12_TargetsCommanded ==
    \A p \in Procs :
        LeavesFanOut(p) => DOMAIN last_action_result'[1].results = Targets

\* C12: commands go to exactly the configured ids when there are any, and else
\* to exactly the thermostats list_devices returned.
C12_TargetResolution == []C12_TargetsInFanOut /\ [][C12_TargetsCommanded]_vars

\* a fan-out has ended that commanded the configured id and left a listed
\* thermostat alone
C12_Witness ==
    /\ last_action_result # <<>>
    /\ nest_device_ids # <<>>
    /\ \E d \in ListedThermostats : d \notin DOMAIN last_action_result[1].results
    /\ \A i \in 1..Len(nest_device_ids) :
           nest_device_ids[i] \in DOMAIN last_action_result[1].results

\* the device client call the run p is in: which call of which event
CallOf(p) == <<pc[p] = "set_mode", idx[p], dev_idx[p]>>

\* the step is a step of the run p
Stepped(p) == <<pc[p], idx[p], dev_idx[p], attempt[p]>>' # <<pc[p], idx[p], dev_idx[p], attempt[p]>>

\* C13 for one attempt: the attempt in flight is the first, second or third of
\* its call; if it fails and is retried it was not the third and the same call
\* makes the next attempt; otherwise the call is over, after at most 3 attempts:
\* a success ends it at once, and a third failure raises.
C13_AttemptEnds ==
    \A p \in Procs :
        (pc[p] \in {"list", "set_mode"} /\ Stepped(p)) =>
            /\ attempt[p] \in 1..3
            /\ call'.attempt = attempt[p]
            /\ IF call'.outcome = "retry"
               THEN /\ attempt[p] < 3
                    /\ call'.error # NoError
                    /\ attempt'[p] = attempt[p] + 1
                    /\ CallOf(p)' = CallOf(p)
               ELSE /\ <<pc[p], idx[p], dev_idx[p]>>' # <<pc[p], idx[p], dev_idx[p]>>
                    /\ Processing(p)' => attempt'[p] = 1
            /\ call'.outcome \in {"returned", "true", "false"} <=> call'.error = NoError
            /\ (attempt[p] = 3 /\ call'.error # NoError) => call'.outcome = "raised"

\* C13: one list_devices or set_thermostat_mode call makes at most 3 HTTP
\* attempts, stops at the first success, and raises after a third failure.
C13_RetryBound ==
    /\ [](\A p \in Procs : Processing(p) => attempt[p] \in 1..3)
    /\ [][C13_AttemptEnds]_vars

\* a call has raised after its third attempt failed with a retried error
C13_Witness ==
    /\ call.op \in {"list_devices", "turn_off_thermostat"}
    /\ call.outcome = "raised"
    /\ call.attempt = 3
    /\ retryable(call.error)

\* C14: an attempt answered with HTTP 400, 401 or 403 is not retried: the call
\* raises after that one attempt.
C14_NoRetryOnRejection ==
    (/\ call.op \in {"list_devices", "turn_off_thermostat"}
     /\ call.error.class = "HTTPStatusError"
     /\ call.error.status \in {400, 401, 403}) =>
        /\ call.outcome = "raised"
        /\ call.attempt = 1


(***************************************************************************)
(* get_valid_token                                                         *)
(***************************************************************************)
TokenCalled == call.op = "get_valid_token"

\* the condition of the refresh, on the credentials the call found
RefreshDue ==
    LET b == call.before
    IN  \/ b.token = <<>>
        \/ expired(b.expiry, now)
        \/ b.expiry # <<>> /\ b.expiry[1] < now + 10

\* C15: get_valid_token makes a refresh exchange iff no token is held, or the
\* held token is expired, or its expiry is earlier than now + 10 minutes; then
\* it makes exactly one exchange, and otherwise none and returns the held token.
C15_RefreshIffDue ==
    TokenCalled =>
        /\ RefreshDue => call.refreshes = 1
        /\ ~RefreshDue =>
              /\ call.refreshes = 0
              /\ ~call.raised
              /\ call.ret = call.before.token
              /\ credentials_token = call.before.token
              /\ credentials_expiry = call.before.expiry

\* a held token five minutes from its expiry was refreshed once
C15_Witness ==
    /\ TokenCalled
    /\ call.before.token # <<>>
    /\ call.before.expiry = <<now + 5>>
    /\ call.refreshes = 1
    /\ ~call.raised

\* C16: every token get_valid_token returns has at least ten minutes of
\* lifetime left when it is returned, whatever expiry the refresh reported.
C16_ReturnedTokenHasMargin ==
    (TokenCalled /\ ~call.raised /\ credentials_expiry # <<>>) =>
        credentials_expiry[1] >= now + 10

\* C17: when the refresh exchange fails, get_valid_token raises after that one
\* exchange, returns no token and leaves the last-refresh time as it was; the
\* last-refresh time moves only on a successful refresh.
C17_FailedRefreshRaises ==
    TokenCalled =>
        /\ call.raised =>
              /\ call.refreshes = 1
              /\ call.ret = <<>>
              /\ last_refresh = call.before.last_refresh
        /\ last_refresh # call.before.last_refresh =>
              /\ call.refreshes = 1
              /\ ~call.raised
              /\ last_refresh = <<now>>

\* a refresh failed after an earlier one had succeeded
C17_Witness ==
    /\ TokenCalled
    /\ call.raised
    /\ call.before.last_refresh # <<>>
    /\ call.before.last_refresh[1] < now
    /\ last_refresh = call.before.last_refresh


(***************************************************************************)
(* The device cache                                                        *)
(***************************************************************************)
\* the ids of the devices of a listing response that have the thermostat trait
ThermostatIdsOf(response) ==
    { response[i].device_id : i \in { k \in 1..Len(response) : response[k].thermostat } }

\* C18: list_devices without force_refresh and with a non-empty cache makes no
\* request and returns the cache; with an empty or absent cache, or with
\* force_refresh, it makes a listing call, after whose success the cache is
\* exactly the thermostats of the response and after whose failure the cache is
\* what it was.
C18_DeviceCache ==
    call.op = "list_devices" =>
        LET b == call.before
            filled == b # <<>> /\ b[1] # <<>>
        IN  IF filled /\ ~call.force_refresh
            THEN /\ call.requests = 0
                 /\ ~call.raised
                 /\ call.ret = b[1]
                 /\ devices_cache = b
            ELSE /\ call.requests >= 1
                 /\ IF call.raised
                    THEN devices_cache = b
                    ELSE /\ devices_cache # <<>>
                         /\ devices_cache[1] = call.ret
                         /\ { call.ret[i] : i \in 1..Len(call.ret) }
                                = ThermostatIdsOf(call.response)
                         /\ Len(call.ret) = Cardinality(ThermostatIdsOf(call.response))

\* a forced listing has replaced a non-empty cache by a different list
C18_Witness ==
    /\ call.op = "list_devices"
    /\ call.force_refresh
    /\ call.before # <<>>
    /\ call.before[1] # <<>>
    /\ ~call.raised
    /\ devices_cache # call.before
    /\ Len(call.response) > Len(call.ret)


(***************************************************************************)
(* A refresh failure during a tick                                         *)
(***************************************************************************)
\* the device calls of the run p so far, over its events in order
RunCalls(p) ==
    LET RECURSIVE upto(_)
        upto(i) == IF i = 0 THEN <<>> ELSE upto(i - 1) \o event_log[p][i].calls
    IN  upto(Len(event_log[p]))

\* C19: after the first device command of a tick that failed because no token
\* could be obtained, the tick sends no further device command, for the other
\* devices of the event or for the later events.
C19_RefreshFailureEndsDeviceWork ==
    \A p \in Procs :
        LET cl == RunCalls(p)
        IN  \A i \in 1..Len(cl) : \A j \in 1..Len(cl) :
                (i < j /\ cl[i].error.class = "RefreshError") =>
                    cl[j].error.class = "RefreshError"


(***************************************************************************)
(* The last action of the status snapshot                                  *)
(***************************************************************************)
\* the events of the run p that have ended with one of the three outcomes
Ended(p) ==
    { i \in 1..Len(event_log[p]) : event_log[p][i].status \in {"no_thermostats", "done"} }

\* C20: the last-action record of the status snapshot is the outcome of the
\* event attempted last: after an event that ended with "no thermostats found"
\* it shows that event with no device turned off, and after a fan-out it shows
\* the per-device results of that event.
C20_LastActionIsLastAttempt ==
    \A p \in Procs :
        \A i \in Ended(p) :
            (\A j \in Ended(p) : j <= i) =>
                /\ last_action_result # <<>>
                /\ last_action_result[1].reservation_id = event_log[p][i].reservation_id
                /\ event_log[p][i].status = "no_thermostats" =>
                       last_action_result[1].thermostats_off = 0


(***************************************************************************)
(* Marking twice                                                           *)
(***************************************************************************)
\* C21 at the mark: marking an id that is in the ledger leaves the set of ids
\* as it was and sets the timestamp of the id to the time of this mark, the
\* other timestamps staying.
C21_RemarkKeepsSet ==
    (call.op = "mark_processed" /\ call.reservation_id \in call.before.events) =>
        /\ processed_events = call.before.events
        /\ DOMAIN processed_timestamps = DOMAIN call.before.timestamps
        /\ processed_timestamps[call.reservation_id] = now
        /\ \A r \in DOMAIN processed_timestamps \ {call.reservation_id} :
               processed_timestamps[r] = call.before.timestamps[r]

\* C21 at the eviction: an id stays iff the timestamp it had, that of its latest
\* mark, is not before the cutoff.
C21_EvictedByLatestMark ==
    call.op = "cleanup_old_processed" =>
        \A r \in call.before.events :
            r \in processed_events <=> call.before.timestamps[r] >= now - 24 * 60

\* C21: mark_processed on a marked id raises nothing, keeps the set of marked
\* ids and replaces the timestamp of the id by the current time, so the age of
\* the id at an eviction is counted from its latest mark.
C21_MarkIdempotent == C21_RemarkKeepsSet /\ C21_EvictedByLatestMark

\* an id marked again after more than a day has passed, without an eviction
\* between the two marks
C21_Witness ==
    /\ call.op = "mark_processed"
    /\ call.reservation_id \in call.before.events
    /\ call.before.timestamps[call.reservation_id] < now - 24 * 60
    /\ processed_timestamps[call.reservation_id] = now


(***************************************************************************)
(* Termination of a tick                                                   *)
(***************************************************************************)
\* the most targets an event can have: the configured ids or the listed devices
MostTargets ==
    IF Len(nest_device_ids) > Len(sdm_devices) THEN Len(nest_device_ids)
    ELSE Len(sdm_devices)

\* the most steps one event can take: 3 listing attempts with 2 waits between
\* them, and 3 mode-set attempts for each target
EventSteps == 3 + 2 + 3 * MostTargets

\* a bound on the steps the run p has left
StepsLeft(p) ==
    LET rest == (Len(events[p]) - idx[p]) * EventSteps
    IN  CASE pc[p] = "fetch" -> 1 + Len(feed) * EventSteps
          [] pc[p] = "list" -> rest + 3 * MostTargets + 2 * (3 - attempt[p]) + 1
          [] pc[p] = "list_wait" -> rest + 3 * MostTargets + 2 * (3 - attempt[p]) + 2
          [] pc[p] = "set_mode" ->
                 rest + 3 * (Len(device_ids[p]) - dev_idx[p]) + (3 - attempt[p]) + 1
          [] OTHER -> 0

\* C22, counted: a run works on the events in order, each once, commands each
\* target of an event once, and makes at most 3 attempts per call.
C22_Counted ==
    \A p \in Procs :
        /\ StepsLeft(p) >= 0
        /\ Processing(p) =>
              /\ idx[p] \in 1..Len(events[p])
              /\ attempt[p] \in 1..3
        /\ pc[p] = "set_mode" =>
              /\ dev_idx[p] \in 1..Len(device_ids[p])
              /\ Len(device_ids[p]) <= MostTargets

\* C22, step by step: every step of a run brings it nearer to its end, and it
\* never goes back to an earlier event.
C22_Progress ==
    \A p \in Procs :
        (Active(p) /\ Stepped(p)) =>
            /\ StepsLeft(p)' < StepsLeft(p)
            /\ Active(p)' => idx'[p] >= idx[p]

\* C22: every tick ends, whatever fails: for each of its events it makes at most
\* 3 listing attempts and 3 mode-set attempts per target device, and it
\* processes no event twice.
C22_TickTerminates ==
    /\ []C22_Counted
    /\ [][C22_Progress]_vars
    /\ ~NoRunActive ~> NoRunActive

\* a tick has ended in which both targets of an event failed at the third attempt
C22_Witness ==
    /\ NoRunActive
    /\ call.op = "turn_off_thermostat"
    /\ call.outcome = "raised"
    /\ call.attempt = 3
    /\ last_action_result # <<>>
    /\ last_action_result[1].thermostats_failed = 2


(***************************************************************************)
(* Response within the tick                                                *)
(***************************************************************************)
\* the run p is done with the event it was working on
LeavesEvent(p) ==
    /\ Processing(p)
    /\ pc'[p] = "idle" \/ idx'[p] # idx[p]

\* C23 at the fetch: every timed entry of the fetched feed that is in the window,
\* has the keyword and whose id is not in the ledger is among the events the run
\* goes through.
C23_Selected ==
    \A p \in Procs :
        (pc[p] = "fetch" /\ pc'[p] # "fetch" /\ call'.ret = "Calendar") =>
            \A i \in 1..Len(feed) :
                LET c == feed[i]
                    s == c.dtstart.t
                    e == IF c.dtend.kind = "absent" THEN s + 60 ELSE c.dtend.t
                IN  ( /\ Timed(c)
                      /\ \/ now - checkout_buffer_minutes <= s /\ s <= now
                         \/ s <= now /\ now <= e
                      /\ Keyworded(c)
                      /\ reservation_id_of(c) \notin processed_events ) =>
                        \E j \in 1..Len(events'[p]) :
                            events'[p][j].reservation_id = reservation_id_of(c)

\* C23 for each event: the run goes on to the next event of its list, or ends
\* after the last, whatever happened to this one; and unless the listing raised
\* or there is no target, it leaves the event from the end of its fan-out with
\* the id in the ledger.
C23_Handled ==
    \A p \in Procs :
        LeavesEvent(p) =>
            /\ IF idx[p] < Len(events[p])
               THEN pc'[p] # "idle" /\ idx'[p] = idx[p] + 1 /\ events'[p] = events[p]
               ELSE pc'[p] = "idle"
            /\ (Targets # {} /\ ~(pc[p] = "list" /\ call'.outcome = "raised")) =>
                  /\ pc[p] = "set_mode"
                  /\ FannedOut(p, idx[p])
                  /\ CurrentEvent(p).reservation_id \in processed_events'

\* C23: when the fetch of a tick succeeds, every in-window keyword entry whose
\* id is not in the ledger and whose target resolution yields a device is
\* fanned out and marked before the tick ends, whatever fails for the other
\* events of the tick.
C23_ResponseWithinTick == [][C23_Selected /\ C23_Handled]_vars

\* the fan-out of the second event of a tick is under way after the listing for
\* the first event raised
C23_Witness ==
    \E p \in Procs :
        /\ pc[p] = "set_mode"
        /\ idx[p] = 2
        /\ event_log[p][1].status = "raised"
        /\ event_log[p][1].calls = <<>>
        /\ FannedOut(p, 2)
        /\ events[p][2].reservation_id \notin tick_ledger[p]


(***************************************************************************)
(* Entries that cannot be parsed                                           *)
(***************************************************************************)
\* reading the times of the entry c raises: a start or an end that is a date
Unparsable(c) ==
    /\ c.dtstart.kind # "absent"
    /\ c.dtstart.kind = "date" \/ c.dtend.kind = "date"

\* the feed without its unparsable entries
Parsable(calendar) == SelectSeq(calendar, LAMBDA c : ~Unparsable(c))

\* C24: parse_events returns, and what it returns is what it returns for the
\* feed without the unparsable entries: those are skipped alone, the other
\* qualifying entries are all there, in feed order.
C24_SkippedAlone ==
    call.op = "parse_events" =>
        /\ call.ret = parse_events(Parsable(feed), call.buffer_minutes, now)
        /\ \A j \in 1..Len(call.ret) :
               \E i \in 1..Len(feed) :
                   ~Unparsable(feed[i]) /\ call.ret[j] = CheckoutEvent(feed[i])
        /\ \A i \in 1..Len(feed), k \in 1..Len(feed) :
               (i < k /\ ~Unparsable(feed[i]) /\ ~Unparsable(feed[k])
                      /\ KeptIn(call.ret, feed[i]) /\ KeptIn(call.ret, feed[k])
                      /\ feed[i] # feed[k]) =>
                   \E a \in 1..Len(call.ret), b \in 1..Len(call.ret) :
                       /\ a < b
                       /\ call.ret[a] = CheckoutEvent(feed[i])
                       /\ call.ret[b] = CheckoutEvent(feed[k])

\* an unparsable entry between two entries that are both returned, in feed order
C24_Witness ==
    /\ call.op = "parse_events"
    /\ Len(feed) = 3
    /\ Unparsable(feed[2])
    /\ call.ret = <<CheckoutEvent(feed[1]), CheckoutEvent(feed[3])>>


(***************************************************************************)
(* All-day entries                                                         *)
(***************************************************************************)
\* C25: an all-day entry counts as starting at midnight UTC of its date and is
\* then tested like a timed entry: if that start is in the window and the
\* description has the keyword, parse_events returns an event for it.
C25_AllDayAtMidnight ==
    call.op = "parse_events" =>
        \A i \in 1..Len(feed) :
            LET c == feed[i]
                s == c.dtstart.t
            IN  ( /\ c.dtstart.kind = "date"
                  /\ now - call.buffer_minutes <= s /\ s <= now
                  /\ Keyworded(c) ) =>
                    \E j \in 1..Len(call.ret) :
                        /\ call.ret[j].event_start = s
                        /\ call.ret[j].summary = c.summary
                        /\ call.ret[j].has_trigger_keyword


(***************************************************************************)
(* Entries without an end or without a start                               *)
(***************************************************************************)
Larger(a, b) == IF a > b THEN a ELSE b

\* C26: an entry without an end that passes the content rule is returned iff
\* now - max(b, 60) <= start <= now, with end = start + 1 hour; an entry without
\* a start is not returned.
C26_DefaultDuration ==
    call.op = "parse_events" =>
        /\ \A i \in 1..Len(feed) :
               LET c == feed[i]
                   s == c.dtstart.t
                   content == \/ ci_contains(CHECK_OUT, c.summary)
                              \/ ci_contains(CHECKOUT, c.summary)
                              \/ Keyworded(c)
               IN  /\ ( /\ c.dtstart.kind \in {"datetime", "naive"}
                        /\ c.dtend.kind = "absent"
                        /\ content ) =>
                          /\ KeptIn(call.ret, c) <=>
                                 (now - Larger(call.buffer_minutes, 60) <= s /\ s <= now)
                          /\ CheckoutEvent(c).event_end = s + 60
                   /\ c.dtstart.kind = "absent" => ~KeptIn(call.ret, c)
        /\ Len(call.ret) <=
               Cardinality({ i \in 1..Len(feed) : feed[i].dtstart.kind # "absent" })

\* an entry without an end that started an hour ago, before the buffer, is
\* returned with end = now
C26_Witness ==
    /\ call.op = "parse_events"
    /\ call.buffer_minutes < 60
    /\ Len(feed) = 1
    /\ feed[1].dtend.kind = "absent"
    /\ feed[1].dtstart = Dt("datetime", now - 60)
    /\ Len(call.ret) = 1
    /\ call.ret[1].event_end = now


(***************************************************************************)
(* The reservation id                                                      *)
(***************************************************************************)
\* the text d has the label "Reservation:" at position i, letters compared
\* without case
LabelAt(d, i) ==
    /\ i + 11 <= Len(d)
    /\ \A n \in 1..12 : lower_char(d[i + n - 1]) = RESERVATION[n]

\* the label at i is followed, after white space only, by the token d[j..k]
TokenAfter(d, i, j, k) ==
    /\ LabelAt(d, i)
    /\ i + 12 <= j /\ j <= k /\ k <= Len(d)
    /\ \A n \in (i + 12)..(j - 1) : d[n] \in {" ", "\n", "\t"}
    /\ \A n \in j..k : is_token_char(d[n])
    /\ k = Len(d) \/ ~is_token_char(d[k + 1])

\* the labelled field is present in d
HasToken(d, i) == LabelAt(d, i) /\ \E j, k \in (i + 12)..Len(d) : TokenAfter(d, i, j, k)
Labelled(d) == \E i \in 1..Len(d) : HasToken(d, i)

\* text is the token of the first labelled field of d
IsLabelledToken(d, text) ==
    \E i \in 1..Len(d) :
        /\ HasToken(d, i)
        /\ \A h \in 1..(i - 1) : ~HasToken(d, h)
        /\ \E j, k \in (i + 12)..Len(d) :
               TokenAfter(d, i, j, k) /\ text = SubSeq(d, j, k)

\* the fallback id: the first 20 characters of the summary, "_", the start
FallbackId(summary, start) ==
    [n \in 1..(IF Len(summary) < 20 THEN Len(summary) ELSE 20) |-> summary[n]]
        \o <<"_">> \o isoformat(start)

\* C27: the id of a returned event is the token after "Reservation:" when the
\* description has the labelled field, and else the fallback made of the first
\* 20 characters of the summary and the start; it depends on nothing else, so
\* the same entry gets the same id in every parse.
C27_ReservationId ==
    call.op = "parse_events" =>
        \A i \in 1..Len(feed) :
            LET c == feed[i]
            IN  (Timed(c) /\ KeptIn(call.ret, c)) =>
                    \A j \in 1..Len(call.ret) :
                        call.ret[j] = CheckoutEvent(c) =>
                            IF Labelled(c.description)
                            THEN IsLabelledToken(c.description, call.ret[j].reservation_id)
                            ELSE call.ret[j].reservation_id
                                     = FallbackId(c.summary, c.dtstart.t)

\* two entries whose summaries differ after the 20th character and that have no
\* labelled token get the same fallback id
C27_Witness ==
    /\ call.op = "parse_events"
    /\ Len(feed) = 2
    /\ feed[1].summary # feed[2].summary
    /\ feed[1].description = DescNoToken
    /\ Len(call.ret) = 2
    /\ call.ret[1].reservation_id = call.ret[2].reservation_id
    /\ call.ret[1].reservation_id = FallbackId(SumLongA, now)


(***************************************************************************)
(* The eviction of a tick                                                  *)
(***************************************************************************)
\* the run p starts: the step up to the await of the fetch
StartsTick(p) == pc[p] \in {"boot", "idle"} /\ pc'[p] = "fetch"

\* the ids whose mark is older than 24 hours at this instant
Overdue == { r \in processed_events : processed_timestamps[r] < now - 24 * 60 }

\* C28 at the start: the step that starts a tick, before the fetch, removes the
\* ids overdue at that instant and no other.
C28_EvictsAtStart ==
    \A p \in Procs :
        StartsTick(p) =>
            /\ processed_events' = processed_events \ Overdue
            /\ DOMAIN processed_timestamps' = processed_events'

\* C28 elsewhere: a step that is not the start of a tick removes no id.
C28_NoOtherRemoval ==
    (\A p \in Procs : ~StartsTick(p)) => processed_events \subseteq processed_events'

\* C28 for the run: the ids in the ledger after the eviction stay in it while the
\* run lasts, and none of them is an event of the run.
C28_ExcludedForTheTick ==
    \A p \in Procs :
        Active(p) =>
            /\ tick_ledger[p] \subseteq processed_events
            /\ \A i \in 1..Len(events[p]) :
                   events[p][i].reservation_id \notin tick_ledger[p]

\* C28: the eviction runs once in a tick, before the fetch, with one cutoff;
\* nothing is removed from the ledger at another point of the tick, and an id
\* that the eviction left stays excluded for the whole tick.
C28_OneEvictionPerTick ==
    /\ []C28_ExcludedForTheTick
    /\ [][C28_EvictsAtStart /\ C28_NoOtherRemoval]_vars

\* a tick is at its fetch after its eviction removed the id of the last action
C28_Witness ==
    \E p \in Procs :
        /\ pc[p] = "fetch"
        /\ last_action_result # <<>>
        /\ last_action_result[1].reservation_id \notin processed_events
        /\ tick_ledger[p] = processed_events


(***************************************************************************)
(* The bearer token of an attempt                                          *)
(***************************************************************************)
\* C29: every HTTP attempt of list_devices and set_thermostat_mode, retries
\* included, asks get_valid_token once before the request and sends what it
\* returned as the bearer; when get_valid_token raises no request goes out; a
\* list_devices served from the cache asks for no token.
C29_TokenPerAttempt ==
    call.op \in {"list_devices", "set_thermostat_mode"} =>
        IF call.outcome = "cached"
        THEN call.token_calls = 0 /\ ~call.sent
        ELSE /\ call.attempt \in 1..3
             /\ call.token_calls = 1
             /\ call.sent => (call.bearer # <<>> /\ call.bearer = credentials_token)
             /\ ~call.sent => call.error.class = "RefreshError"

\* a retry attempt went out with a token that get_valid_token refreshed within
\* that attempt
C29_Witness ==
    /\ call.op \in {"list_devices", "set_thermostat_mode"}
    /\ call.attempt = 3
    /\ call.sent
    /\ call.bearer # <<>>
    /\ call.bearer[1].issued = now
    /\ now > 0


(***************************************************************************)
(* The notification                                                        *)
(***************************************************************************)
\* C30 at the end of a fan-out, whatever the notifier does: the event is marked
\* with the time of the step, the last-action record is that of the event, and
\* the run goes on with its next event or ends after the last; if the notifier
\* was called, it was called for this event with these results, the event
\* marked and the record written before the call.
C30_AfterMarkAndRecord ==
    \A p \in Procs :
        LeavesFanOut(p) =>
            LET r == CurrentEvent(p).reservation_id
            IN  /\ processed_events' = processed_events \cup {r}
                /\ processed_timestamps'[r] = now
                /\ last_action_time' = <<now>>
                /\ last_action_result' # <<>>
                /\ last_action_result'[1].reservation_id = r
                /\ DOMAIN last_action_result'[1].results = IdsUpTo(p, Len(device_ids[p]))
                /\ IF idx[p] < Len(events[p])
                   THEN pc'[p] # "idle" /\ idx'[p] = idx[p] + 1
                   ELSE pc'[p] = "idle"
                /\ call'.sink # <<>> =>
                      /\ call'.sink[1].reservation_id = r
                      /\ call'.sink[1].marked
                      /\ call'.sink[1].recorded = last_action_result'
                      /\ call'.sink[1].thermostat_results = last_action_result'[1].results

\* C30 elsewhere: the notifier is called by no other step.
C30_OnlyAfterFanOut ==
    (\A p \in Procs : ~LeavesFanOut(p)) =>
        \/ call' = call
        \/ "sink" \notin DOMAIN call'
        \/ call'.sink = <<>>

\* C30: the notifier is called for an event only after the event was marked and
\* the last-action record written; its failure changes neither of them and does
\* not keep the run from the remaining events of the tick.
C30_SinkAfterMark == [][C30_AfterMarkAndRecord /\ C30_OnlyAfterFanOut]_vars

\* the notification of the first event of a tick failed, and the run is at the
\* second event with the first marked and recorded
C30_Witness ==
    \E p \in Procs :
        /\ Processing(p)
        /\ idx[p] = 2
        /\ "sink" \in DOMAIN call
        /\ call.sink # <<>>
        /\ call.sink[1].outcome \in {"failed", "raised"}
        /\ call.sink[1].reservation_id = events[p][1].reservation_id
        /\ call.sink[1].reservation_id \in processed_events
        /\ last_action_result = call.sink[1].recorded


(***************************************************************************)
(* C31: the backoff schedule of one retried device call.                   *)
(***************************************************************************)
\* the last attempt of the call in flight failed and tenacity waits to retry
Retrying(c) == c.op # "none" /\ c.outcome = "retry"

\* C31, first and last part: the wait before the 2nd attempt is 2 seconds and
\* no wait is above 30 seconds
C31_FirstWaitAndCap ==
    Retrying(call) =>
        /\ call.wait <= 30
        /\ call.attempt = 1 => call.wait = 2

\* C31, middle part: the wait before each later attempt is twice the wait
\* before the attempt that precedes it
C31_Doubles ==
    (Retrying(call) /\ Retrying(call') /\ call'.attempt = call.attempt + 1)
        => call'.wait = Min2(2 * call.wait, 30)

\* C31: the schedule of one retried device call is 2 seconds before the 2nd
\* attempt, then twice the previous wait before each later attempt (2 seconds,
\* then 4 seconds, with 3 attempts), and never more than 30 seconds
C31_BackoffSchedule == []C31_FirstWaitAndCap /\ [][C31_Doubles]_vars

\* what the code does: the second wait of a call equals the first
C31_SecondWaitRepeats ==
    (Retrying(call) /\ call.attempt = 2) => call.wait = 2

\* a call whose 2nd attempt failed and is retried
C31_Witness == Retrying(call) /\ call.attempt = 2


(***************************************************************************)
(* C32: the device listing raises while an event is being processed        *)
(***************************************************************************)
\* the listing awaited for the event of the run p raises out of list_devices
ListingRaises(p) ==
    /\ pc[p] = "list"
    /\ pc'[p] # "list" \/ idx'[p] # idx[p]
    /\ call'.op = "list_devices"
    /\ call'.outcome = "raised"

\* the feed entry c is timed, in the time window at t and has the keyword
InWindowAt(c, t) ==
    LET s == c.dtstart.t
        e == IF c.dtend.kind = "absent" THEN s + 60 ELSE c.dtend.t
    IN  /\ Timed(c)
        /\ \/ t - checkout_buffer_minutes <= s /\ s <= t
           \/ s <= t /\ t <= e
        /\ Keyworded(c)

\* the fetch of the run p returns the calendar
FetchDone(p) ==
    /\ pc[p] = "fetch"
    /\ pc'[p] # "fetch"
    /\ call'.op = "fetch_calendar"
    /\ call'.ret = "Calendar"

\* C32 at the raise: no mode-set command was sent for the event, none follows
\* (the run is at its next event or has ended), and the ledger is as it was
C32_NoCommandNoMark ==
    \A p \in Procs :
        ListingRaises(p) =>
            LET cur == event_log[p][Len(event_log[p])]
            IN  /\ cur.reservation_id = CurrentEvent(p).reservation_id
                /\ cur.calls = <<>>
                /\ call'.event = CurrentEvent(p).reservation_id
                /\ LeavesEvent(p)
                /\ IF idx[p] < Len(events[p])
                   THEN idx'[p] = idx[p] + 1
                   ELSE pc'[p] = "idle"
                /\ UNCHANGED <<processed_events, processed_timestamps>>

\* C32 at the next fetch, as stated: the event whose listing raised last is
\* selected again when its entry is still in the time window
C32_SelectedAgainAlways ==
    \A p \in Procs :
        (FetchDone(p) /\ call.op = "list_devices" /\ call.outcome = "raised") =>
            \A i \in 1..Len(feed) :
                (InWindowAt(feed[i], now) /\ reservation_id_of(feed[i]) = call.event) =>
                    \E j \in 1..Len(events'[p]) :
                        events'[p][j].reservation_id = call.event

\* C32 at the next fetch, amended: it is selected again when its entry is still
\* in the time window and its id is not in the ledger (the fan-out of another
\* entry with the same reservation id may have put it there)
C32_SelectedAgain ==
    \A p \in Procs :
        (FetchDone(p) /\ call.op = "list_devices" /\ call.outcome = "raised") =>
            \A i \in 1..Len(feed) :
                ( /\ InWindowAt(feed[i], now)
                  /\ reservation_id_of(feed[i]) = call.event
                  /\ call.event \notin processed_events ) =>
                    \E j \in 1..Len(events'[p]) :
                        events'[p][j].reservation_id = call.event

NoTargetKnown == nest_device_ids = <<>> /\ devices_cache = << <<>> >>

\* the listing awaited for the event of the run p returns no thermostat and no
\* id is configured: process_checkout_event returns "No thermostats found"
NoTarget(p) ==
    /\ pc[p] = "list"
    /\ pc'[p] # "list" \/ idx'[p] # idx[p]
    /\ call'.op = "list_devices"
    /\ call'.outcome = "returned"
    /\ NoTargetKnown'

\* C33 at the return: no mode-set command was sent for the event and none
\* follows (the run is at its next event or has ended), no notification is sent
\* and the ledger is as it was
C33_NothingDone ==
    \A p \in Procs :
        NoTarget(p) =>
            LET cur == event_log[p][Len(event_log[p])]
            IN  /\ cur.reservation_id = CurrentEvent(p).reservation_id
                /\ cur.calls = <<>>
                /\ call'.event = CurrentEvent(p).reservation_id
                /\ call'.sink = <<>>
                /\ LeavesEvent(p)
                /\ IF idx[p] < Len(events[p])
                   THEN idx'[p] = idx[p] + 1
                   ELSE pc'[p] = "idle"
                /\ UNCHANGED <<processed_events, processed_timestamps>>

\* C33 at the next fetch: the event that ended without a target is selected
\* again when its entry is still in the time window, and the run awaits a
\* listing, at its first attempt, for the first of its events
C33_SelectedAgain ==
    \A p \in Procs :
        (FetchDone(p) /\ call.op = "list_devices" /\ call.outcome = "returned"
                      /\ NoTargetKnown) =>
            \A i \in 1..Len(feed) :
                (InWindowAt(feed[i], now) /\ reservation_id_of(feed[i]) = call.event) =>
                    /\ \E j \in 1..Len(events'[p]) :
                           events'[p][j].reservation_id = call.event
                    /\ pc'[p] = "list"
                    /\ attempt'[p] = 1

\* C33 for every event of such a tick: the run is never past the listing of an
\* event without having awaited it, so each selected event has its own listing
C33_ListsEachEvent ==
    \A p \in Procs :
        (Processing(p) /\ NoTargetKnown) => pc[p] \in {"list", "list_wait"}

\* C33: with no configured id and an empty inventory, process_checkout_event
\* sends no mode-set command and no notification and leaves the ledger alone;
\* the event is selected again, and a listing awaited again, by a following tick
\* while the entry is in the time window
C33_NoTarget ==
    /\ []C33_ListsEachEvent
    /\ [][C33_NothingDone /\ C33_SelectedAgain]_vars

\* a tick has started after an event of the tick before ended without a target,
\* the entry being in the window at the time of this tick
C33_Witness ==
    \E p \in Procs :
        /\ pc[p] = "fetch"
        /\ call.op = "list_devices"
        /\ call.outcome = "returned"
        /\ NoTargetKnown
        /\ \E i \in 1..Len(feed) :
               InWindowAt(feed[i], now) /\ reservation_id_of(feed[i]) = call.event


(***************************************************************************)
(* C34: the set of processed ids and the timestamp map                     *)
(***************************************************************************)
\* the events of the list evs that the list ret does not have
Excluded(evs, ret) ==
    { evs[i] : i \in { k \in 1..Len(evs) : \A j \in 1..Len(ret) : ret[j] # evs[k] } }

\* C34: after any sequence of mark_processed and cleanup_old_processed calls the
\* set of processed ids is the key set of the id-to-timestamp map, and every
\* event filter_unprocessed leaves out has a timestamp in the map
C34_LedgerConsistency ==
    /\ DOMAIN processed_timestamps = processed_events
    /\ call.op = "filter_unprocessed" =>
           \A e \in Excluded(call.events, call.ret) :
               e.reservation_id \in DOMAIN call.ledger.timestamps

\* cleanup_old_processed has evicted one marked id and kept another
C34_Witness ==
    /\ call.op = "cleanup_old_processed"
    /\ call.before.events # processed_events
    /\ processed_events # {}

\* filter_unprocessed has left out an event
C34_FilterWitness ==
    /\ call.op = "filter_unprocessed"
    /\ Excluded(call.events, call.ret) # {}

=============================================================================
